---------------------------- MODULE Spec2Model ----------------------------
(***************************************************************************)
(* A model of the gststructure parser and serializer.                      *)
(*                                                                         *)
(* Texts are TLA+ strings, read as sequences of characters.  The cursor    *)
(* of the Parser class is the pair (input, pos) with pos counted from 0 as *)
(* in the source; every Parser method becomes an operator that takes the   *)
(* input and the position it starts at and returns the record              *)
(*     [ok, pos, val]                                                      *)
(* where ok = FALSE stands for a thrown ParseError raised at pos and       *)
(* ok = TRUE for a normal return that leaves the cursor at pos.            *)
(*                                                                         *)
(* JavaScript numbers are modelled as exact decimals m * 10^(-s) in a      *)
(* canonical form (m carries no trailing zero), plus NaN and the two       *)
(* infinities.  The discriminant of a Value / Caps record is called "kind" *)
(* here (the sources name it "type" in the parser and "kind" in the        *)
(* serializer; it is the same tag).                                        *)
(***************************************************************************)
EXTENDS Integers, Sequences, FiniteSets, TLC

VARIABLES
    gen,      \* how the current input text was put together (the caller's view)
    input,    \* the text the next call is made on
    op,       \* the entry point called last
    result,   \* what that call returned or raised
    orig      \* the value whose serialization is the current input, if any

vars == <<gen, input, op, result, orig>>

-----------------------------------------------------------------------------
(* Characters and character classes                                        *)

LowerSeq == <<"a","b","c","d","e","f","g","h","i","j","k","l","m",
              "n","o","p","q","r","s","t","u","v","w","x","y","z">>

UpperSeq == <<"A","B","C","D","E","F","G","H","I","J","K","L","M",
              "N","O","P","Q","R","S","T","U","V","W","X","Y","Z">>

DigitSeq == <<"0","1","2","3","4","5","6","7","8","9">>

Lower == {LowerSeq[i] : i \in 1..26}

Upper == {UpperSeq[i] : i \in 1..26}

Letter == Lower \cup Upper

Digit == {DigitSeq[i] : i \in 1..10}

HexDigit == Digit \cup {"a","b","c","d","e","f","A","B","C","D","E","F"}

\* /[a-zA-Z_]/
NameStart == Letter \cup {"_"}

\* /[a-zA-Z0-9\-_.:/]/
NameChar == Letter \cup Digit \cup {"-", "_", ".", ":", "/"}

\* /[a-zA-Z0-9\-_]/
FieldNameChar == Letter \cup Digit \cup {"-", "_"}

\* /[a-zA-Z0-9_]/
TypeNameChar == Letter \cup Digit \cup {"_"}

\* /[a-zA-Z0-9:_-]/
FeatureChar == Letter \cup Digit \cup {":", "_", "-"}

\* the characters skipWS and parseUnquoted treat as blanks
Blank == {" ", "\t", "\r", "\n"}

\* the characters that end an unquoted token
UnquotedStop == {",", ";", "]", "}", ">"} \cup Blank

-----------------------------------------------------------------------------
(* String primitives of the host language                                  *)

\* input[p], with the empty string standing for undefined
At(s, p) == IF p >= 0 /\ p < Len(s) THEN SubSeq(s, p + 1, p + 1) ELSE ""

\* input.slice(a, b) for 0 <= a, b
slice(s, a, b) == SubSeq(s, a + 1, IF b > Len(s) THEN Len(s) ELSE b)

\* input.startsWith(lit, p)
startsWith(s, lit, p) == p + Len(lit) <= Len(s) /\ slice(s, p, p + Len(lit)) = lit

\* const v = ...; rest
With(v, rest(_)) == rest(v)

toLowerChar(c) ==
    IF c \in Upper THEN LowerSeq[CHOOSE i \in 1..26 : UpperSeq[i] = c] ELSE c

\* the two halves of a text of two characters or more
Left(s) == SubSeq(s, 1, Len(s) \div 2)
Right(s) == SubSeq(s, Len(s) \div 2 + 1, Len(s))

\* every character lowered, the halves of s one after the other
RECURSIVE toLowerCase(_)
toLowerCase(s) ==
    IF Len(s) <= 1 THEN toLowerChar(s)
    ELSE toLowerCase(Left(s)) \o toLowerCase(Right(s))

\* the position after the longest run of characters of class C starting at p
span(s, p, C) ==
    IF p >= Len(s) THEN p
    ELSE CHOOSE q \in p..Len(s) :
             (\A i \in p..(q - 1) : At(s, i) \in C) /\ At(s, q) \notin C

\* String.prototype.trim
trimEnd(s) ==
    slice(s, 0, CHOOSE e \in 0..Len(s) :
                    /\ \A i \in e..(Len(s) - 1) : At(s, i) \in Blank
                    /\ e = 0 \/ At(s, e - 1) \notin Blank)

trim(s) == trimEnd(slice(s, span(s, 0, Blank), Len(s)))

DigitVal(c) ==
    IF c \in Digit THEN (CHOOSE i \in 1..10 : DigitSeq[i] = c) - 1
    ELSE 9 + (CHOOSE i \in 1..6 : LowerSeq[i] = toLowerChar(c))

\* the value of a run of digits in the given radix (0 for the empty run)
RECURSIVE DigitsVal(_, _)
DigitsVal(s, radix) ==
    IF s = "" THEN 0
    ELSE DigitsVal(slice(s, 0, Len(s) - 1), radix) * radix + DigitVal(At(s, Len(s) - 1))

RECURSIVE NatToStr(_, _)
NatToStr(n, radix) ==
    LET d == n % radix
        c == IF d < 10 THEN DigitSeq[d + 1] ELSE LowerSeq[d - 9]
    IN  IF n < radix THEN c ELSE NatToStr(n \div radix, radix) \o c

RECURSIVE Zeros(_)
Zeros(n) == IF n <= 0 THEN "" ELSE "0" \o Zeros(n - 1)

RECURSIVE Pow10(_)
Pow10(n) == IF n <= 0 THEN 1 ELSE 10 * Pow10(n - 1)

-----------------------------------------------------------------------------
(* Numbers: the double-precision values of the host language, as exact     *)
(* decimals m * 10^(-s).                                                   *)

NaN == [c |-> "nan", m |-> 0, s |-> 0]

Infinity(neg) == [c |-> IF neg THEN "-inf" ELSE "inf", m |-> 0, s |-> 0]

RECURSIVE Num(_, _)
Num(m, s) ==
    IF m = 0 THEN [c |-> "fin", m |-> 0, s |-> 0]
    ELSE IF m % 10 = 0 THEN Num(m \div 10, s - 1)
    ELSE [c |-> "fin", m |-> m, s |-> s]

NumOfInt(n) == Num(n, 0)

\* the integer a finite number with no fractional part stands for
IntOfNum(x) == x.m * Pow10(-x.s)

IsIntegerNum(x) == x.c = "fin" /\ x.s <= 0

Abs(n) == IF n < 0 THEN -n ELSE n

\* Math.trunc
MathTrunc(x) ==
    IF x.c # "fin" \/ x.s <= 0 THEN x
    ELSE LET q == Abs(x.m) \div Pow10(x.s)
         IN  Num(IF x.m < 0 THEN -q ELSE q, 0)

\* Number.prototype.toString(10) (ECMA-262 Number::toString)
NumberToString(x) ==
    IF x.c = "nan" THEN "NaN"
    ELSE IF x.c = "inf" THEN "Infinity"
    ELSE IF x.c = "-inf" THEN "-Infinity"
    ELSE IF x.m = 0 THEN "0"
    ELSE With(NatToStr(Abs(x.m), 10), LAMBDA ds :
         LET sign == IF x.m < 0 THEN "-" ELSE ""
             k    == Len(ds)
             n    == k - x.s
             e    == n - 1
             exp  == (IF e < 0 THEN "-" ELSE "+") \o NatToStr(Abs(e), 10)
         IN  sign \o
             (IF k <= n /\ n <= 21 THEN ds \o Zeros(n - k)
              ELSE IF 0 < n /\ n <= 21 THEN slice(ds, 0, n) \o "." \o slice(ds, n, k)
              ELSE IF -6 < n /\ n <= 0 THEN "0." \o Zeros(-n) \o ds
              ELSE IF k = 1 THEN ds \o "e" \o exp
              ELSE slice(ds, 0, 1) \o "." \o slice(ds, 1, k) \o "e" \o exp))

-----------------------------------------------------------------------------
(* Conversions of the host language from text to numbers                   *)

\* the position after an optional sign at p
signEnd(str, p) == IF At(str, p) \in {"+", "-"} THEN p + 1 ELSE p

\* parseInt(str, radix) for radix 10 and 16: blanks, sign, for radix 16 an
\* optional 0x, then the longest run of digits; NaN when that run is empty
parseInt(str, radix) ==
    With(span(str, 0, Blank), LAMBDA p0 :
    With(signEnd(str, p0), LAMBDA p1 :
    With(IF radix = 16 /\ (startsWith(str, "0x", p1) \/ startsWith(str, "0X", p1))
         THEN p1 + 2 ELSE p1, LAMBDA p2 :
    With(span(str, p2, IF radix = 16 THEN HexDigit ELSE Digit), LAMBDA p3 :
    LET neg == At(str, p0) = "-"
        n   == DigitsVal(slice(str, p2, p3), radix)
    IN  IF p3 = p2 THEN NaN ELSE NumOfInt(IF neg THEN -n ELSE n)))))

\* a run of digits without the zeros it ends with
stripZeros(ds) ==
    slice(ds, 0, CHOOSE e \in 0..Len(ds) :
                     /\ \A i \in e..(Len(ds) - 1) : At(ds, i) = "0"
                     /\ e = 0 \/ At(ds, e - 1) # "0")

\* parseFloat(str): blanks, then the longest prefix that is a decimal literal;
\* the zeros that end the digits are counted in the exponent, not multiplied in
parseFloat(str) ==
    With(span(str, 0, Blank), LAMBDA p0 :
    With(signEnd(str, p0), LAMBDA p1 :
    With(span(str, p1, Digit), LAMBDA i1 :
    With(IF At(str, i1) = "." THEN span(str, i1 + 1, Digit) ELSE i1, LAMBDA f1 :
    With(IF At(str, f1) \in {"e", "E"} THEN f1 + 1 ELSE f1, LAMBDA q1 :
    With(IF q1 > f1 THEN signEnd(str, q1) ELSE q1, LAMBDA q2 :
    With(span(str, q2, Digit), LAMBDA q3 :
    LET neg   == At(str, p0) = "-"
        ipart == slice(str, p1, i1)
        fpart == IF At(str, i1) = "." THEN slice(str, i1 + 1, f1) ELSE ""
        eneg  == At(str, q1) = "-"
        ex    == IF q1 > f1 /\ q3 > q2
                 THEN (IF eneg THEN -1 ELSE 1) * DigitsVal(slice(str, q2, q3), 10)
                 ELSE 0
        sig   == stripZeros(ipart \o fpart)
        mant  == DigitsVal(sig, 10)
    IN  IF startsWith(str, "Infinity", p1) THEN Infinity(neg)
        ELSE IF ipart = "" /\ fpart = "" THEN NaN
        ELSE Num(IF neg THEN -mant ELSE mant, Len(sig) - Len(ipart) - ex))))))))

\* Number(raw) for a raw text that is a hexadecimal literal
NumberOfHex(raw) == NumOfInt(DigitsVal(slice(raw, 2, Len(raw)), 16))

\* BigInt(str): [ok, value]; ok = FALSE stands for the SyntaxError
BigIntOfString(str) ==
    With(trim(str), LAMBDA t :
    LET neg == At(t, 0) = "-"
        p1  == signEnd(t, 0)
        hex == startsWith(t, "0x", 0) \/ startsWith(t, "0X", 0)
    IN  IF t = "" THEN [ok |-> TRUE, value |-> 0]
        ELSE IF hex /\ Len(t) > 2 /\ span(t, 2, HexDigit) = Len(t)
             THEN [ok |-> TRUE, value |-> DigitsVal(slice(t, 2, Len(t)), 16)]
        ELSE IF Len(t) > p1 /\ span(t, p1, Digit) = Len(t)
             THEN [ok |-> TRUE,
                   value |-> (IF neg THEN -1 ELSE 1) * DigitsVal(slice(t, p1, Len(t)), 10)]
        ELSE [ok |-> FALSE, value |-> 0])

\* BigInt.prototype.toString(16)
BigIntToString16(n) == (IF n < 0 THEN "-" ELSE "") \o NatToStr(Abs(n), 16)

\* raw.split('+')
RECURSIVE splitPlus(_, _, _)
splitPlus(s, p, start) ==
    IF p >= Len(s) THEN <<slice(s, start, Len(s))>>
    ELSE IF At(s, p) = "+" THEN <<slice(s, start, p)>> \o splitPlus(s, p + 1, p + 1)
    ELSE splitPlus(s, p + 1, start)

-----------------------------------------------------------------------------
(* The data model (types.ts)                                               *)

Undefined == [kind |-> "undefined"]

IntValue(n) == [kind |-> "int", value |-> n]

DoubleValue(n) == [kind |-> "double", value |-> n]

StringValue(s) == [kind |-> "string", value |-> s]

BooleanValue(b) == [kind |-> "boolean", value |-> b]

FractionValue(n, d) == [kind |-> "fraction", numerator |-> n, denominator |-> d]

BitmaskValue(n) == [kind |-> "bitmask", value |-> n]

FlagsValue(fs) == [kind |-> "flags", flags |-> fs]

ListValue(items) == [kind |-> "list", items |-> items]

ArrayValue(items) == [kind |-> "array", items |-> items]

RangeValue(min, max, step) == [kind |-> "range", min |-> min, max |-> max, step |-> step]

StructureValue(st) == [kind |-> "structure", value |-> st]

CapsValue(caps) == [kind |-> "caps", value |-> caps]

TypedValue(typeName, v) == [kind |-> "typed", typeName |-> typeName, value |-> v]

Structure(name, fields) == [name |-> name, fields |-> fields]

CapsEntry(structure, features) == [structure |-> structure, features |-> features]

CapsAny == [kind |-> "any"]

CapsEmpty == [kind |-> "empty"]

CapsStructures(entries) == [kind |-> "structures", entries |-> entries]

\* a map that keeps every entry written to it
MapSet_append(fields, k, v) == Append(fields, [key |-> k, value |-> v])

\* a map in which a key written again moves behind the others
MapSet_moveToEnd(fields, k, v) ==
    Append(SelectSeq(fields, LAMBDA f : f.key # k), [key |-> k, value |-> v])

\* Map.prototype.set on the ordered field map, a sequence of [key, value]:
\* an existing key keeps its place and takes the new value
MapSet(fields, k, v) ==
    IF \E i \in 1..Len(fields) : fields[i].key = k
    THEN [i \in 1..Len(fields) |->
            IF fields[i].key = k THEN [key |-> k, value |-> v] ELSE fields[i]]
    ELSE Append(fields, [key |-> k, value |-> v])

\* Map.prototype.get
MapGet(fields, k) ==
    IF \E i \in 1..Len(fields) : fields[i].key = k
    THEN fields[CHOOSE i \in 1..Len(fields) : fields[i].key = k].value
    ELSE Undefined

-----------------------------------------------------------------------------
(* Type inference (inferType)                                              *)

\* /^0x[0-9a-fA-F]+$/i
IsHexLiteral(raw) ==
    /\ Len(raw) >= 3
    /\ At(raw, 0) = "0"
    /\ At(raw, 1) \in {"x", "X"}
    /\ span(raw, 2, HexDigit) = Len(raw)

\* /^[+-]?[0-9]+$/
IsIntLiteral(raw) ==
    LET p1 == IF At(raw, 0) \in {"+", "-"} THEN 1 ELSE 0
    IN  Len(raw) > p1 /\ span(raw, p1, Digit) = Len(raw)

\* [eE][+-]?[0-9]+ from p to the end of raw
IsExponentAt(raw, p) ==
    LET q == IF At(raw, p + 1) \in {"+", "-"} THEN p + 2 ELSE p + 1
    IN  At(raw, p) \in {"e", "E"} /\ Len(raw) > q /\ span(raw, q, Digit) = Len(raw)

\* /^[+-]?(?:[0-9]+\.[0-9]*|\.[0-9]+)(?:[eE][+-]?[0-9]+)?$/ or
\* /^[+-]?[0-9]+[eE][+-]?[0-9]+$/
IsDoubleLiteral(raw) ==
    LET p1 == IF At(raw, 0) \in {"+", "-"} THEN 1 ELSE 0
        i1 == span(raw, p1, Digit)
        f1 == span(raw, i1 + 1, Digit)
    IN  \/ /\ At(raw, i1) = "."
           /\ (i1 > p1 \/ f1 > i1 + 1)
           /\ (f1 = Len(raw) \/ IsExponentAt(raw, f1))
        \/ /\ i1 > p1
           /\ IsExponentAt(raw, i1)

\* /^([0-9]+)\/([0-9]+)$/
IsFractionLiteral(raw) ==
    LET i1 == span(raw, 0, Digit)
    IN  i1 > 0 /\ At(raw, i1) = "/" /\ Len(raw) > i1 + 1
        /\ span(raw, i1 + 1, Digit) = Len(raw)

\* [a-zA-Z_][a-zA-Z0-9_-]* from p; the position after it, or p when none
identEnd(raw, p) ==
    IF At(raw, p) \in NameStart THEN span(raw, p + 1, FieldNameChar) ELSE p

\* (\+[a-zA-Z_][a-zA-Z0-9_-]*)+$ from p, given that n groups were read so far
RECURSIVE IsFlagsTail(_, _, _)
IsFlagsTail(raw, p, n) ==
    IF p >= Len(raw) THEN n >= 1
    ELSE /\ At(raw, p) = "+"
         /\ identEnd(raw, p + 1) > p + 1
         /\ IsFlagsTail(raw, identEnd(raw, p + 1), n + 1)

\* the flags test without raw.includes('+') and with (...)* for (...)+
IsFlagsLiteral_noPlus(raw) ==
    /\ identEnd(raw, 0) > 0
    /\ \/ identEnd(raw, 0) = Len(raw)
       \/ IsFlagsTail(raw, identEnd(raw, 0), 0)

\* raw.includes('+') && /^[a-zA-Z_][a-zA-Z0-9_-]*(\+[a-zA-Z_][a-zA-Z0-9_-]*)+$/
IsFlagsLiteral(raw) ==
    /\ \E i \in 0..(Len(raw) - 1) : At(raw, i) = "+"
    /\ identEnd(raw, 0) > 0
    /\ IsFlagsTail(raw, identEnd(raw, 0), 0)

\* /^(true|false|yes|no|t|f)$/i
IsBooleanLiteral(raw) == toLowerCase(raw) \in {"true", "false", "yes", "no", "t", "f"}

\* inferType with the fraction rule left out
inferType_noFraction(raw) ==
    IF IsHexLiteral(raw) THEN IntValue(NumberOfHex(raw))
    ELSE IF IsIntLiteral(raw) THEN IntValue(parseInt(raw, 10))
    ELSE IF IsDoubleLiteral(raw) THEN DoubleValue(parseFloat(raw))
    ELSE IF IsFlagsLiteral(raw) THEN FlagsValue(splitPlus(raw, 0, 0))
    ELSE IF IsBooleanLiteral(raw)
         THEN BooleanValue(toLowerCase(raw) \in {"true", "yes", "t"})
    ELSE StringValue(raw)

inferType(raw) ==
    IF IsHexLiteral(raw) THEN IntValue(NumberOfHex(raw))
    ELSE IF IsIntLiteral(raw) THEN IntValue(parseInt(raw, 10))
    ELSE IF IsDoubleLiteral(raw) THEN DoubleValue(parseFloat(raw))
    ELSE IF IsFractionLiteral(raw)
         THEN LET i1 == span(raw, 0, Digit)
              IN  FractionValue(parseInt(slice(raw, 0, i1), 10),
                                parseInt(slice(raw, i1 + 1, Len(raw)), 10))
    ELSE IF IsFlagsLiteral(raw) THEN FlagsValue(splitPlus(raw, 0, 0))
    ELSE IF IsBooleanLiteral(raw)
         THEN BooleanValue(toLowerCase(raw) \in {"true", "yes", "t"})
    ELSE StringValue(raw)

-----------------------------------------------------------------------------
(* Results of the Parser methods                                           *)

\* a normal return with the cursor left at p
Ok(p, v) == [ok |-> TRUE, hang |-> FALSE, pos |-> p, val |-> v]

\* a ParseError thrown with the cursor at p
Throw(p) == [ok |-> FALSE, hang |-> FALSE, pos |-> p, val |-> Undefined]

\* a loop that never ends, the cursor staying at p
Hang(p) == [ok |-> FALSE, hang |-> TRUE, pos |-> p, val |-> Undefined]

\* statement sequencing: rest runs on what r returned; a throw (or a loop that
\* never ends) in r leaves the method at once
Then(r, rest(_)) == IF r.ok THEN rest(r) ELSE r

\* what a coercion yields when the inner parse it runs never returns
Diverge == [kind |-> "diverge"]

\* how one pass through the body of a while loop ends: at a break (or with the
\* loop condition false), or ready for the next pass; acc is what the loop has
\* built so far
Break(p, acc) == Ok(p, [acc |-> acc, more |-> FALSE])
Continue(p, acc) == Ok(p, [acc |-> acc, more |-> TRUE])

\* Parse(m, s, p) is the Parser method m run on input s from position p; the
\* methods call one another through it
RECURSIVE Parse(_, _, _)


-----------------------------------------------------------------------------
(* Typed-value interpretation (interpretTyped and the coercions)           *)

IntFamily == {"int", "gint", "uint", "guint", "gint8", "gint16", "gint32", "gint64",
              "guint8", "guint16", "guint32", "guint64", "int64", "uint64"}

DoubleFamily == {"double", "gdouble", "float", "gfloat"}

BooleanFamily == {"boolean", "gboolean", "bool"}

StringFamily == {"string", "gchararray"}

BitmaskFamily == {"bitmask", "gstbitmask"}

FractionFamily == {"fraction", "gstfraction"}

CapsFamily == {"gstcaps", "caps"}

StructureFamily == {"gststructure"}

\* coerceInt with Math.floor in the place of Math.trunc
coerceInt_floor(v) ==
    IF v.kind = "int" THEN v
    ELSE IF v.kind = "double"
         THEN IntValue(IF v.value.m < 0 /\ v.value.s > 0
                       THEN NumOfInt(IntOfNum(MathTrunc(v.value)) - 1)
                       ELSE MathTrunc(v.value))
    ELSE IF v.kind = "boolean" THEN IntValue(NumOfInt(IF v.value THEN 1 ELSE 0))
    ELSE IF v.kind = "string"
         THEN IntValue(IF startsWith(v.value, "0x", 0) \/ startsWith(v.value, "0X", 0)
                       THEN parseInt(v.value, 16) ELSE parseInt(v.value, 10))
    ELSE v

coerceInt(v) ==
    IF v.kind = "int" THEN v
    ELSE IF v.kind = "double" THEN IntValue(MathTrunc(v.value))
    ELSE IF v.kind = "boolean" THEN IntValue(NumOfInt(IF v.value THEN 1 ELSE 0))
    ELSE IF v.kind = "string"
         THEN IntValue(IF startsWith(v.value, "0x", 0) \/ startsWith(v.value, "0X", 0)
                       THEN parseInt(v.value, 16) ELSE parseInt(v.value, 10))
    ELSE v

coerceDouble(v) ==
    IF v.kind = "double" THEN v
    ELSE IF v.kind = "int" THEN DoubleValue(v.value)
    ELSE IF v.kind = "string" THEN DoubleValue(parseFloat(v.value))
    ELSE v

coerceBool(v) ==
    IF v.kind = "boolean" THEN v
    ELSE IF v.kind = "int" THEN BooleanValue(v.value # NumOfInt(0))
    ELSE IF v.kind = "string"
         THEN BooleanValue(toLowerCase(v.value) \in {"true", "yes", "t", "1"})
    ELSE v

coerceString(v) ==
    IF v.kind = "string" THEN v
    ELSE IF v.kind = "int" THEN StringValue(NumberToString(v.value))
    ELSE IF v.kind = "double" THEN StringValue(NumberToString(v.value))
    ELSE IF v.kind = "boolean" THEN StringValue(IF v.value THEN "true" ELSE "false")
    ELSE v

coerceBitmask(v) ==
    IF v.kind = "bitmask" THEN v
    ELSE IF v.kind = "int" THEN BitmaskValue(IntOfNum(v.value))
    ELSE IF v.kind = "string"
         THEN LET b == BigIntOfString(v.value)
              IN  IF b.ok THEN BitmaskValue(b.value) ELSE v
    ELSE v

\* try { new Parser(s).parseStructure() } catch { null }
parseStructureInner(s) ==
    LET r == Parse("Parser_parseStructure", s, 0)
    IN  IF r.hang THEN Diverge ELSE IF r.ok THEN r.val ELSE Undefined

\* parseCapsInner with an empty Caps in the place of null
parseCapsInner_lenient(s) ==
    LET r == Parse("Parser_parseCaps", s, 0)
    IN  IF r.hang THEN Diverge ELSE IF r.ok THEN r.val ELSE CapsStructures(<<>>)

\* try { new Parser(s).parseCaps() } catch { null }
parseCapsInner(s) ==
    LET r == Parse("Parser_parseCaps", s, 0)
    IN  IF r.hang THEN Diverge ELSE IF r.ok THEN r.val ELSE Undefined

coerceCaps(v) ==
    LET caps == parseCapsInner(v.value)
    IN  IF v.kind = "caps" THEN v
        ELSE IF v.kind = "string"
             THEN IF caps = Diverge THEN Diverge
                  ELSE IF caps # Undefined THEN CapsValue(caps)
                  ELSE v
        ELSE v

coerceStructure(v) ==
    LET st == parseStructureInner(v.value)
    IN  IF v.kind = "structure" THEN v
        ELSE IF v.kind = "string"
             THEN IF st = Diverge THEN Diverge
                  ELSE IF st # Undefined THEN StructureValue(st)
                  ELSE v
        ELSE v

interpretTyped(typeName, raw) ==
    LET n == toLowerCase(typeName)
    IN  CASE n \in IntFamily       -> coerceInt(raw)
          [] n \in DoubleFamily    -> coerceDouble(raw)
          [] n \in BooleanFamily   -> coerceBool(raw)
          [] n \in StringFamily    -> coerceString(raw)
          [] n \in BitmaskFamily   -> coerceBitmask(raw)
          [] n \in FractionFamily  -> raw
          [] n \in CapsFamily      -> coerceCaps(raw)
          [] n \in StructureFamily -> coerceStructure(raw)
          [] OTHER                 -> TypedValue(typeName, raw)

-----------------------------------------------------------------------------
(* The Parser cursor                                                       *)

eof(s, p) == p >= Len(s)

peek(s, p) == At(s, p)

\* skipWS: blanks and backslash-newline continuations; the position reached
RECURSIVE skipWS(_, _)
skipWS(s, p) ==
    IF eof(s, p) THEN p
    ELSE IF At(s, p) \in Blank THEN skipWS(s, p + 1)
    ELSE IF At(s, p) = "\\" /\ At(s, p + 1) \in {"\n", "\r"}
         THEN skipWS(s, IF At(s, p + 2) = "\n" THEN p + 3 ELSE p + 2)
    ELSE p

\* tryConsume(lit): the position after lit when it matches at p, else p
tryConsume(s, lit, p) == IF startsWith(s, lit, p) THEN p + Len(lit) ELSE p

\* expect(lit)
expect(s, lit, p) == IF startsWith(s, lit, p) THEN Ok(p + Len(lit), lit) ELSE Throw(p)

parseName(s, p) ==
    IF At(s, p) \notin NameStart THEN Throw(p)
    ELSE LET q == span(s, p, NameChar) IN Ok(q, slice(s, p, q))

RECURSIVE fieldNameEnd(_, _)
fieldNameEnd(s, p) ==
    IF eof(s, p) THEN p
    ELSE IF At(s, p) \in FieldNameChar THEN fieldNameEnd(s, p + 1)
    ELSE IF At(s, p) = ":" /\ At(s, p + 1) = ":" THEN fieldNameEnd(s, p + 2)
    ELSE IF At(s, p) = "." THEN fieldNameEnd(s, p + 1)
    ELSE p

parseFieldName(s, p) ==
    LET q == fieldNameEnd(s, p)
    IN  IF q = p THEN Throw(p) ELSE Ok(q, slice(s, p, q))

parseTypeName(s, p) ==
    LET q == span(s, p, TypeNameChar) IN Ok(q, slice(s, p, q))

parseCapsFeatureName(s, p) ==
    LET q == span(s, p, FeatureChar) IN Ok(q, slice(s, p, q))

-----------------------------------------------------------------------------
(* Value parsing                                                           *)

\* the position at which parseUnquoted stops reading
unquotedEnd(s, p) ==
    IF eof(s, p) THEN p
    ELSE CHOOSE q \in p..Len(s) :
             /\ \A i \in p..(q - 1) : At(s, i) \notin UnquotedStop
             /\ eof(s, q) \/ At(s, q) \in UnquotedStop

parseUnquoted(s, p) ==
    LET q == unquotedEnd(s, p)
    IN  IF q = p THEN Throw(p) ELSE Ok(q, inferType(slice(s, p, q)))

\* a decoding that drops the backslash of an escape it does not know
unescape_dropUnknown(esc) ==
    CASE esc = "n"  -> "\n"
      [] esc = "t"  -> "\t"
      [] esc = "r"  -> "\r"
      [] OTHER      -> esc

\* what a backslash followed by esc stands for
unescape(esc) ==
    CASE esc = "n"  -> "\n"
      [] esc = "t"  -> "\t"
      [] esc = "r"  -> "\r"
      [] esc = "\"" -> "\""
      [] esc = "\\" -> "\\"
      [] OTHER      -> "\\" \o esc

\* the loop of parseQuotedString, l holding the cursor and the text decoded
\* so far
RECURSIVE quotedLoop(_, _)
quotedLoop(s, l) ==
    CASE eof(s, l.pos) \/ peek(s, l.pos) = "\"" -> l
      [] peek(s, l.pos) = "\\" ->
            quotedLoop(s, Ok(l.pos + 2, l.val \o unescape(At(s, l.pos + 1))))
      [] OTHER -> quotedLoop(s, Ok(l.pos + 1, l.val \o At(s, l.pos)))

parseQuotedString(s, p) ==
    LET o == expect(s, "\"", p)
        l == quotedLoop(s, Ok(o.pos, ""))
        c == expect(s, "\"", l.pos)
    IN  IF ~o.ok THEN o
        ELSE IF ~c.ok THEN c
        ELSE Ok(c.pos, l.val)

\* the number of positions in a..(b - 1) that hold the character c
Count(s, a, b, c) == Cardinality({i \in a..(b - 1) : At(s, i) = c})

\* the loop of extractBalanced: the position it stops at, which is the first
\* close that finds depth at 1 (one more open than close since p), else the end
closesAt(s, p, q, open, close) ==
    At(s, q) = close /\ close # open /\ Count(s, p, q, open) = Count(s, p, q, close)

balancedEnd(s, p, open, close) ==
    IF \E q \in p..(Len(s) - 1) : closesAt(s, p, q, open, close)
    THEN CHOOSE q \in p..(Len(s) - 1) :
             /\ closesAt(s, p, q, open, close)
             /\ \A r \in p..(q - 1) : ~closesAt(s, p, r, open, close)
    ELSE Len(s)

extractBalanced(s, p, open, close) ==
    LET o == expect(s, open, p)
        q == balancedEnd(s, o.pos, open, close)
        c == expect(s, close, q)
    IN  IF ~o.ok THEN o
        ELSE IF ~c.ok THEN c
        ELSE Ok(c.pos, slice(s, o.pos, q))

parseRange(s, p) ==
    LET o    == expect(s, "[", p)
        min  == Parse("parseValue", s, skipWS(s, o.pos))
        c1   == expect(s, ",", skipWS(s, min.pos))
        max  == Parse("parseValue", s, skipWS(s, c1.pos))
        p1   == skipWS(s, max.pos)
        step == IF peek(s, p1) = ","
                THEN Parse("parseValue", s, skipWS(s, p1 + 1))
                ELSE Ok(p1, Undefined)
        c2   == expect(s, "]", skipWS(s, step.pos))
    IN  IF ~o.ok THEN o
        ELSE IF ~min.ok THEN min
        ELSE IF ~c1.ok THEN c1
        ELSE IF ~max.ok THEN max
        ELSE IF ~step.ok THEN step
        ELSE IF ~c2.ok THEN c2
        ELSE Ok(c2.pos, RangeValue(min.val, max.val, step.val))

\* one pass of the loop of parseList
listStep(s, p, items) ==
    LET v  == Parse("parseValue", s, p)
        p1 == skipWS(s, v.pos)
    IN  IF eof(s, p) \/ peek(s, p) = "}" THEN Break(p, items)
        ELSE IF ~v.ok THEN v
        ELSE Continue(IF peek(s, p1) = "," THEN skipWS(s, p1 + 1) ELSE p1,
                      Append(items, v.val))

\* the loop of parseList up to the closing delimiter, l being where the last
\* pass left it
RECURSIVE listLoop(_, _)
listLoop(s, l) ==
    IF l.ok /\ l.val.more THEN listLoop(s, listStep(s, l.pos, l.val.acc)) ELSE l

parseList(s, p) ==
    LET o == expect(s, "{", p)
        l == listLoop(s, Continue(skipWS(s, o.pos), <<>>))
        c == expect(s, "}", l.pos)
    IN  IF ~o.ok THEN o
        ELSE IF ~l.ok THEN l
        ELSE IF ~c.ok THEN c
        ELSE Ok(c.pos, ListValue(l.val.acc))

\* one pass of the loop of parseGstArray
arrayStep(s, p, items) ==
    LET v  == Parse("parseValue", s, p)
        p1 == skipWS(s, v.pos)
    IN  IF eof(s, p) \/ peek(s, p) = ">" THEN Break(p, items)
        ELSE IF ~v.ok THEN v
        ELSE Continue(IF peek(s, p1) = "," THEN skipWS(s, p1 + 1) ELSE p1,
                      Append(items, v.val))

\* the loop of parseGstArray up to the closing delimiter
RECURSIVE arrayLoop(_, _)
arrayLoop(s, l) ==
    IF l.ok /\ l.val.more THEN arrayLoop(s, arrayStep(s, l.pos, l.val.acc)) ELSE l

parseGstArray(s, p) ==
    LET o == expect(s, "<", p)
        l == arrayLoop(s, Continue(skipWS(s, o.pos), <<>>))
        c == expect(s, ">", l.pos)
    IN  IF ~o.ok THEN o
        ELSE IF ~l.ok THEN l
        ELSE IF ~c.ok THEN c
        ELSE Ok(c.pos, ArrayValue(l.val.acc))

\* { type: 'string', value: this.parseQuotedString() }
quotedValue(s, p) ==
    LET q == parseQuotedString(s, p)
    IN  IF q.ok THEN Ok(q.pos, StringValue(q.val)) ELSE q

\* the value that follows the type name of parseTypedValue
typedRaw(s, p) ==
    CASE peek(s, p) = "\"" -> quotedValue(s, p)
      [] peek(s, p) = "["  -> Parse("parseRange", s, p)
      [] peek(s, p) = "{"  -> Parse("parseList", s, p)
      [] peek(s, p) = "<"  -> Parse("parseGstArray", s, p)
      [] OTHER             -> parseUnquoted(s, p)

parseTypedValue(s, p) ==
    LET o  == expect(s, "(", p)
        tn == parseTypeName(s, skipWS(s, o.pos))
        c  == expect(s, ")", skipWS(s, tn.pos))
        p1 == skipWS(s, c.pos)
    IN  IF ~o.ok THEN o
        ELSE IF tn.val = "" THEN Throw(tn.pos)
        ELSE IF ~c.ok THEN c
        ELSE IF toLowerCase(tn.val) \in {"gstcaps", "caps"} /\ peek(s, p1) = "["
             THEN Then(extractBalanced(s, p1, "[", "]"), LAMBDA inner :
                  With(parseCapsInner(inner.val), LAMBDA caps :
                  IF caps = Diverge THEN Hang(inner.pos)
                  ELSE IF caps = Undefined THEN Throw(inner.pos)
                  ELSE Ok(inner.pos, CapsValue(caps))))
        ELSE Then(typedRaw(s, p1), LAMBDA raw :
             With(interpretTyped(tn.val, raw.val), LAMBDA v :
             IF v = Diverge THEN Hang(raw.pos) ELSE Ok(raw.pos, v)))

parseValue(s, p) ==
    CASE peek(s, p) = "("  -> Parse("parseTypedValue", s, p)
      [] peek(s, p) = "["  -> Parse("parseRange", s, p)
      [] peek(s, p) = "{"  -> Parse("parseList", s, p)
      [] peek(s, p) = "<"  -> Parse("parseGstArray", s, p)
      [] peek(s, p) = "\"" -> quotedValue(s, p)
      [] OTHER             -> parseUnquoted(s, p)

-----------------------------------------------------------------------------
(* Structure parsing                                                       *)

parseField(s, p) ==
    LET name  == parseFieldName(s, p)
        e     == expect(s, "=", skipWS(s, name.pos))
        value == Parse("parseValue", s, skipWS(s, e.pos))
    IN  IF ~name.ok THEN name
        ELSE IF ~e.ok THEN e
        ELSE IF ~value.ok THEN value
        ELSE Ok(value.pos, [key |-> name.val, value |-> value.val])

\* a pass of the field loop that wants a field after every comma
structureStep_strict(s, p, fields) ==
    LET p1 == skipWS(s, p)
        p2 == skipWS(s, p1 + 1)
        f  == Parse("parseField", s, p2)
    IN  IF eof(s, p) THEN Break(p, fields)
        ELSE IF peek(s, p1) = ";" THEN Break(p1 + 1, fields)
        ELSE IF peek(s, p1) # "," THEN Break(p1, fields)
        ELSE IF ~f.ok THEN f
        ELSE Continue(f.pos, MapSet(fields, f.val.key, f.val.value))

\* one pass of the field loop of parseStructure
structureStep(s, p, fields) ==
    LET p1 == skipWS(s, p)
        p2 == skipWS(s, p1 + 1)
        f  == Parse("parseField", s, p2)
    IN  IF eof(s, p) THEN Break(p, fields)
        ELSE IF peek(s, p1) = ";" THEN Break(p1 + 1, fields)
        ELSE IF peek(s, p1) # "," THEN Break(p1, fields)
        ELSE IF eof(s, p2) THEN Break(p2, fields)
        ELSE IF peek(s, p2) = ";" THEN Break(p2 + 1, fields)
        ELSE IF ~f.ok THEN f
        ELSE Continue(f.pos, MapSet(fields, f.val.key, f.val.value))

\* the field loop of parseStructure
RECURSIVE structureLoop(_, _)
structureLoop(s, l) ==
    IF l.ok /\ l.val.more
    THEN structureLoop(s, structureStep(s, l.pos, l.val.acc))
    ELSE l

Parser_parseStructure(s, p) ==
    LET name == parseName(s, skipWS(s, p))
        l    == structureLoop(s, Continue(name.pos, <<>>))
    IN  IF ~name.ok THEN name
        ELSE IF ~l.ok THEN l
        ELSE Ok(l.pos, Structure(name.val, l.val.acc))

-----------------------------------------------------------------------------
(* Caps parsing                                                            *)

\* one pass of the capability-feature loop of parseCaps; a pass that consumes
\* nothing repeats for ever
featureStep(s, p, features) ==
    LET feat == parseCapsFeatureName(s, p)
        p1   == skipWS(s, feat.pos)
        p2   == IF peek(s, p1) = "," THEN skipWS(s, p1 + 1) ELSE p1
    IN  IF eof(s, p) \/ peek(s, p) = ")" THEN Break(p, features)
        ELSE IF p2 = p THEN Hang(p)
        ELSE Continue(p2, IF feat.val # "" THEN Append(features, feat.val) ELSE features)

\* the capability-feature loop of parseCaps
RECURSIVE featureLoop(_, _)
featureLoop(s, l) ==
    IF l.ok /\ l.val.more THEN featureLoop(s, featureStep(s, l.pos, l.val.acc)) ELSE l

\* one pass of the field loop of parseCaps
capsFieldStep(s, p, fields) ==
    LET p1 == skipWS(s, p)
        p2 == skipWS(s, p1 + 1)
        f  == Parse("parseField", s, p2)
    IN  IF eof(s, p) THEN Break(p, fields)
        ELSE IF peek(s, p1) = ";" \/ peek(s, p1) = "" THEN Break(p1, fields)
        ELSE IF peek(s, p1) # "," THEN Break(p1, fields)
        ELSE IF eof(s, p2) \/ peek(s, p2) = ";" THEN Break(p2, fields)
        ELSE IF ~f.ok THEN f
        ELSE Continue(f.pos, MapSet(fields, f.val.key, f.val.value))

\* the field loop of parseCaps
RECURSIVE capsFieldLoop(_, _)
capsFieldLoop(s, l) ==
    IF l.ok /\ l.val.more
    THEN capsFieldLoop(s, capsFieldStep(s, l.pos, l.val.acc))
    ELSE l

\* the optional "(feature, ...)" of a caps entry: the features, or none
capsFeatures(s, p) ==
    LET fl == featureLoop(s, Continue(skipWS(s, p + 1), <<>>))
        cl == expect(s, ")", fl.pos)
    IN  IF peek(s, p) # "(" THEN Ok(p, <<>>)
        ELSE IF ~fl.ok THEN fl
        ELSE IF ~cl.ok THEN cl
        ELSE Ok(skipWS(s, cl.pos), fl.val.acc)

\* a pass of the entry loop that ends the loop where no name can be read
capsEntryStep_lenientName(s, p, entries) ==
    LET name == parseName(s, skipWS(s, p))
    IN  IF eof(s, p) \/ eof(s, skipWS(s, p)) THEN Break(skipWS(s, p), entries)
        ELSE IF ~name.ok THEN Break(skipWS(s, p), entries)
        ELSE Then(capsFeatures(s, skipWS(s, name.pos)), LAMBDA feats :
             Then(capsFieldLoop(s, Continue(feats.pos, <<>>)), LAMBDA l :
             LET p3   == skipWS(s, l.pos)
                 ents == Append(entries,
                                CapsEntry(Structure(name.val, l.val.acc), feats.val))
             IN  IF peek(s, p3) = ";" THEN Continue(p3 + 1, ents)
                 ELSE Break(p3, ents)))

\* one pass of the entry loop of parseCaps
capsEntryStep(s, p, entries) ==
    LET name == parseName(s, skipWS(s, p))
    IN  IF eof(s, p) \/ eof(s, skipWS(s, p)) THEN Break(skipWS(s, p), entries)
        ELSE IF ~name.ok THEN name
        ELSE Then(capsFeatures(s, skipWS(s, name.pos)), LAMBDA feats :
             Then(capsFieldLoop(s, Continue(feats.pos, <<>>)), LAMBDA l :
             LET p3   == skipWS(s, l.pos)
                 ents == Append(entries,
                                CapsEntry(Structure(name.val, l.val.acc), feats.val))
             IN  IF peek(s, p3) = ";" THEN Continue(p3 + 1, ents)
                 ELSE Break(p3, ents)))

\* the entry loop of parseCaps
RECURSIVE capsEntryLoop(_, _)
capsEntryLoop(s, l) ==
    IF l.ok /\ l.val.more
    THEN capsEntryLoop(s, capsEntryStep(s, l.pos, l.val.acc))
    ELSE l

Parser_parseCaps(s, p) ==
    LET p0 == skipWS(s, p)
        l  == capsEntryLoop(s, Continue(p0, <<>>))
    IN  CASE startsWith(s, "ANY", p0)   -> Ok(p0 + 3, CapsAny)
          [] startsWith(s, "EMPTY", p0) -> Ok(p0 + 5, CapsEmpty)
          [] startsWith(s, "NONE", p0)  -> Ok(p0 + 4, CapsEmpty)
          [] OTHER -> IF l.ok THEN Ok(l.pos, CapsStructures(l.val.acc)) ELSE l

\* the methods of the Parser class that call one another
Parse(m, s, p) ==
    CASE m = "parseValue"            -> parseValue(s, p)
      [] m = "parseTypedValue"       -> parseTypedValue(s, p)
      [] m = "parseRange"            -> parseRange(s, p)
      [] m = "parseList"             -> parseList(s, p)
      [] m = "parseGstArray"         -> parseGstArray(s, p)
      [] m = "parseField"            -> parseField(s, p)
      [] m = "Parser_parseStructure" -> Parser_parseStructure(s, p)
      [] m = "Parser_parseCaps"      -> Parser_parseCaps(s, p)

-----------------------------------------------------------------------------
(* Serialization (serializer.ts)                                           *)

\* s.replace(/\\/g, '\\\\').replace(/"/g, '\\"').replace(/\n/g, '\\n')
\*  .replace(/\t/g, '\\t').replace(/\r/g, '\\r')
escapeChar(c) ==
    CASE c = "\\" -> "\\\\"
      [] c = "\"" -> "\\\""
      [] c = "\n" -> "\\n"
      [] c = "\t" -> "\\t"
      [] c = "\r" -> "\\r"
      [] OTHER    -> c

\* every character escaped, the halves of s one after the other
RECURSIVE escapeString(_)
escapeString(s) ==
    IF Len(s) <= 1 THEN escapeChar(s)
    ELSE escapeString(Left(s)) \o escapeString(Right(s))

\* parts.join(sep)
RECURSIVE join(_, _)
\* join with a blank after each separator
join_spaced(parts, sep) ==
    IF parts = <<>> THEN ""
    ELSE IF Len(parts) = 1 THEN parts[1]
    ELSE parts[1] \o sep \o " " \o join(Tail(parts), sep)

join(parts, sep) ==
    IF parts = <<>> THEN ""
    ELSE IF Len(parts) = 1 THEN parts[1]
    ELSE parts[1] \o sep \o join(Tail(parts), sep)

\* the rendering of a double: a decimal point is added when there is neither
\* a point nor an exponent
doubleText(x) ==
    With(NumberToString(x), LAMBDA t :
    IF \E i \in 0..(Len(t) - 1) : At(t, i) \in {".", "e"} THEN t ELSE t \o ".0")

RECURSIVE valueToString(_)
RECURSIVE structureToString(_)
RECURSIVE capsToString(_)

valueToString(v) ==
    CASE v.kind = "int"       -> "(int)" \o NumberToString(v.value)
      [] v.kind = "double"    -> "(double)" \o doubleText(v.value)
      [] v.kind = "string"    -> "\"" \o escapeString(v.value) \o "\""
      [] v.kind = "boolean"   -> "(boolean)" \o (IF v.value THEN "true" ELSE "false")
      [] v.kind = "fraction"  -> "(fraction)" \o NumberToString(v.numerator) \o "/"
                                     \o NumberToString(v.denominator)
      [] v.kind = "bitmask"   -> "(bitmask)0x" \o BigIntToString16(v.value)
      [] v.kind = "flags"     -> join(v.flags, "+")
      [] v.kind = "list"      ->
            "{ " \o join([i \in 1..Len(v.items) |-> valueToString(v.items[i])], ", ") \o " }"
      [] v.kind = "array"     ->
            "< " \o join([i \in 1..Len(v.items) |-> valueToString(v.items[i])], ", ") \o " >"
      [] v.kind = "range"     ->
            IF v.step # Undefined
            THEN "[ " \o valueToString(v.min) \o ", " \o valueToString(v.max) \o ", "
                      \o valueToString(v.step) \o " ]"
            ELSE "[ " \o valueToString(v.min) \o ", " \o valueToString(v.max) \o " ]"
      [] v.kind = "structure" ->
            "(GstStructure)\"" \o escapeString(structureToString(v.value)) \o ";\""
      [] v.kind = "caps"      ->
            "(GstCaps)\"" \o escapeString(capsToString(v.value)) \o "\""
      [] v.kind = "typed"     -> "(" \o v.typeName \o ")" \o valueToString(v.value)

\* valueToStringBare with no case for Boolean
valueToStringBare_noBoolean(v) ==
    CASE v.kind = "int"      -> NumberToString(v.value)
      [] v.kind = "double"   -> doubleText(v.value)
      [] v.kind = "fraction" -> NumberToString(v.numerator) \o "/"
                                    \o NumberToString(v.denominator)
      [] OTHER               -> valueToString(v)

valueToStringBare(v) ==
    CASE v.kind = "int"      -> NumberToString(v.value)
      [] v.kind = "double"   -> doubleText(v.value)
      [] v.kind = "boolean"  -> IF v.value THEN "true" ELSE "false"
      [] v.kind = "fraction" -> NumberToString(v.numerator) \o "/"
                                    \o NumberToString(v.denominator)
      [] OTHER               -> valueToString(v)

structureToString(st) ==
    join(<<st.name>> \o
         [i \in 1..Len(st.fields) |->
             st.fields[i].key \o "=" \o valueToString(st.fields[i].value)],
         ", ")

\* the text of one caps entry
entryToString(e) ==
    e.structure.name
      \o (IF Len(e.features) > 0 THEN "(" \o join(e.features, ", ") \o ")" ELSE "")
      \o join([i \in 1..Len(e.structure.fields) |->
                  ", " \o e.structure.fields[i].key \o "="
                       \o valueToString(e.structure.fields[i].value)], "")

capsToString(caps) ==
    IF caps.kind = "any" THEN "ANY"
    ELSE IF caps.kind = "empty" THEN "EMPTY"
    ELSE join([i \in 1..Len(caps.entries) |-> entryToString(caps.entries[i])], "; ")

-----------------------------------------------------------------------------
(* The public entry points (parser.ts, structure.ts, caps.ts)              *)

\* what a call does: "ok" returns val, "null" returns null, "throw" raises
\* a ParseError at pos, "hang" never returns
Returned(v) == [st |-> "ok", val |-> v, pos |-> 0]

ReturnedNull == [st |-> "null", val |-> Undefined, pos |-> 0]

Raised(p) == [st |-> "throw", val |-> Undefined, pos |-> p]

NeverReturns == [st |-> "hang", val |-> Undefined, pos |-> 0]

NoResult == [st |-> "none", val |-> Undefined, pos |-> 0]

\* the outcome of a throwing entry point, from the outcome of the Parser method
Propagate(r) ==
    IF r.hang THEN NeverReturns ELSE IF r.ok THEN Returned(r.val) ELSE Raised(r.pos)

\* the outcome of a try { ... } catch { return null } around it
CatchAll(r) ==
    IF r.hang THEN NeverReturns ELSE IF r.ok THEN Returned(r.val) ELSE ReturnedNull

\* GstStructure.fromString
GstStructure_fromString(s) == Propagate(Parse("Parser_parseStructure", trim(s), 0))

\* parseStructure without its catch
parseStructure_rethrow(s) ==
    IF s = "" \/ trim(s) = "" THEN ReturnedNull
    ELSE Propagate(Parse("Parser_parseStructure", trim(s), 0))

parseStructure(s) ==
    IF s = "" \/ trim(s) = "" THEN ReturnedNull
    ELSE CatchAll(Parse("Parser_parseStructure", trim(s), 0))

parseStructureOrThrow(s) == GstStructure_fromString(s)

\* parseCaps without its catch
parseCaps_rethrow(s) ==
    IF s = "" \/ trim(s) = "" THEN ReturnedNull
    ELSE Propagate(Parse("Parser_parseCaps", trim(s), 0))

parseCaps(s) ==
    IF s = "" \/ trim(s) = "" THEN ReturnedNull
    ELSE CatchAll(Parse("Parser_parseCaps", trim(s), 0))

parseCapsOrThrow(s) == Propagate(Parse("Parser_parseCaps", trim(s), 0))

-----------------------------------------------------------------------------
(* The texts the entry points are called on                                *)

MaxTextLen == 4

MaxTokLen == 3

MaxPayloadLen == 2

MaxRounds == 1

\* all texts of at most n characters drawn from A
RECURSIVE Words(_, _)
Words(A, n) ==
    IF n = 0 THEN {""}
    ELSE LET W == Words(A, n - 1) IN W \cup {w \o c : w \in W, c \in A}

\* whole texts handed to the structure and caps entry points
TextAlphabet == {"a", ",", "=", " ", ";"}

CapsKeywords == {"ANY", "EMPTY", "NONE"}

Texts ==
    Words(TextAlphabet, MaxTextLen)
      \cup {"a" \o w : w \in Words(TextAlphabet, MaxTextLen)}
      \cup {k \o w : k \in CapsKeywords, w \in Words({"a", ",", " ", ";"}, MaxTextLen - 2)}
      \cup {" " \o k : k \in CapsKeywords}
      \cup {"=invalid", "foo, =bad", "   ", "\t\n", "any", "a(b), c=1", "a(b,c); d", "a(=",
            "a, b=1, b=2", "a, b={ 1, 2 }, c=< x, \"y\" >; d, e=[ 1, 2 ]",
            "a, r=[ 1, 2 ], s=[ 0, 4, 2 ]"}

\* unquoted tokens
TokAlphabet == {"0", "1", "x", "e", "F", "+", "/", "."}

Tokens ==
    (Words(TokAlphabet, MaxTokLen) \ {""})
      \cup {"true", "false", "yes", "no", "f", "TRUE", "False", "Yes", "NO", "T",
            "30/1", "0xFF", "0Xff", "-42", "3.0", "1e-2", "-.5", "flush+accurate",
            "a+b+c", "a-b+c_d", "I420", "videosink:sink", "_x", "a+1", "1/-2", "tru",
            "t", "tt", "1t", "t+x", "t1"}

\* what follows a type tag: unquoted tokens, quoted strings, bracketed bodies
PayloadAlphabet == {"0", "1", "x", ".", "t", "/", "+"}

BareTexts ==
    (Words(PayloadAlphabet, MaxPayloadLen) \ {""})
      \cup {"3.9", "-3.9", "-1", "007", "0x10", "1.50", "true", "YES", "no", "abc",
            "1/2", "a+b", "1e3"}

QuotedTexts ==
    {"", "1", "0", "yes", "TRUE", "t", "x", "0x1F", "1.5", "a b", "a\"b", "a\\b", "a\\qb",
     "v", "v, a=1", "v(m:x), a=(int)1; w", "ANY", "1x", "=bad", "v, =1", "v, a=[1",
     "n, b=\"q\"", "n, b=2;", "v(="}

BracketTexts ==
    {"", "v", "v, a=I", "v, a=[ 1, 2 ]", "v, a={ [ 1, 2 ], 3 }, b=[ 1, 2, 1 ]", "v, a=\"x\"",
     "v, a=\"]\"", "v, a=\"[\"", "v, a=x[y", "v, a=(GstCaps)[w]", "v(m:x); w", "ANY",
     "1x", "v, =1", "v, a=[1", "v(="}

Tags ==
    {"int", "INT", "gint64", "uint", "double", "Float", "bool", "Boolean", "gboolean",
     "string", "gchararray", "String", "bitmask", "fraction", "GstCaps", "caps",
     "GstStructure", "foo", "Foo"}

Tails == {"", ", g=1", "]"}

\* field lists: name, k=v, k=v ... with names that repeat
MaxFields == 3

FieldKeys == {"b", "c"}

FieldVals == {"1", "x"}

FieldTails == {"", ",", ";", ",;", "; d, e=2", ",,"}

\* all sequences of at most n members of S
RECURSIVE Lists(_, _)
Lists(S, n) ==
    IF n = 0 THEN {<<>>}
    ELSE LET L == Lists(S, n - 1) IN L \cup {Append(l, x) : l \in L, x \in S}

FieldLists == Lists([key : FieldKeys, val : FieldVals], MaxFields)

GenText(t) ==
    [form |-> "text", tag |-> "", wrap |-> "", text |-> t, tail |-> "", round |-> 0,
     parts |-> <<>>]

GenToken(t) ==
    [form |-> "token", tag |-> "", wrap |-> "", text |-> t, tail |-> "", round |-> 0,
     parts |-> <<>>]

GenField(tag, wrap, t, tail) ==
    [form |-> "field", tag |-> tag, wrap |-> wrap, text |-> t, tail |-> tail, round |-> 0,
     parts |-> <<>>]

GenFields(name, parts, tail) ==
    [form |-> "fields", tag |-> "", wrap |-> "", text |-> name, tail |-> tail, round |-> 0,
     parts |-> parts]

MaxEntries == 2

EntryNames == {"a", "v/x", "ANYx"}

\* what follows the name of a caps entry: no parentheses, or a feature list
FeatureTexts == {"", "()", "(f, m:G)"}

EntrySeps == {";", " ; "}

EntryTails == {"", ", b=1"}

EntryLists == Lists([key : EntryNames, val : FeatureTexts], MaxEntries) \ {<<>>}

GenEntries(sep, parts, tail) ==
    [form |-> "entries", tag |-> "", wrap |-> "", text |-> sep, tail |-> tail, round |-> 0,
     parts |-> parts]

MaxEscapes == 2

\* the characters written after a backslash
EscChars == {"n", "t", "r", "\"", "\\", "q"}

EscLists == Lists([key : EscChars, val : {""}], MaxEscapes)

\* what follows the escapes: the closing quote, nothing, or a lone backslash
EscTails == {"\"", "", "\\"}

GenEscapes(parts, tail) ==
    [form |-> "escapes", tag |-> "", wrap |-> "", text |-> "", tail |-> tail, round |-> 0,
     parts |-> parts]

MaxItems == 2

ItemVals == {"1", "x"}

\* what is written after a member of a list or array body
ItemSeps == {", ", " ", ",, "}

ItemLists == Lists([key : ItemVals, val : ItemSeps], MaxItems)

\* a list ({) or array (<) body; tail "close" when the closing delimiter is written
GenItems(open, parts, tail) ==
    [form |-> "items", tag |-> "", wrap |-> open, text |-> "", tail |-> tail, round |-> 0,
     parts |-> parts]

GenSerialized(n) ==
    [form |-> "serialized", tag |-> "", wrap |-> "", text |-> "", tail |-> "", round |-> n,
     parts |-> <<>>]

Gens ==
    {GenText(t) : t \in Texts}
      \cup {GenToken(t) : t \in Tokens}
      \cup {GenField("", "bare", t, "") : t \in Tokens}
      \cup {GenField(tag, "bare", t, "") : tag \in Tags, t \in BareTexts}
      \cup {GenField(tag, "quoted", t, "") : tag \in Tags, t \in QuotedTexts}
      \cup {GenField(tag, w, t, tail) :
              tag \in {"GstCaps", "caps", "CAPS"}, w \in {"bracket", "open"},
              t \in BracketTexts, tail \in Tails}
      \cup {GenFields("a", l, tail) : l \in FieldLists, tail \in FieldTails}
      \cup {GenEscapes(l, tail) : l \in EscLists, tail \in EscTails}
      \cup {GenItems(o, l, tail) : o \in {"{", "<"}, l \in ItemLists, tail \in {"close", ""}}
      \cup {GenEntries(sep, l, tail) :
              sep \in EntrySeps, l \in EntryLists, tail \in EntryTails}

\* t with its quotes and backslashes escaped
RECURSIVE Escaped(_)
Escaped(t) ==
    IF Len(t) <= 1 THEN (IF t \in {"\"", "\\"} THEN "\\" \o t ELSE t)
    ELSE Escaped(Left(t)) \o Escaped(Right(t))

\* a quoted literal that decodes to t
Quote(t) == "\"" \o Escaped(t) \o "\""

\* the text in front of the payload of a field recipe
FieldPrefix(g) == "s, f=" \o (IF g.tag = "" THEN "" ELSE "(" \o g.tag \o ")")

FieldPayload(g) ==
    CASE g.wrap = "bare"    -> g.text
      [] g.wrap = "quoted"  -> Quote(g.text)
      [] g.wrap = "bracket" -> "[" \o g.text \o "]"
      [] g.wrap = "open"    -> "[" \o g.text

\* , k=v for each member of a field list
RECURSIVE FieldListText(_)
FieldListText(l) ==
    IF l = <<>> THEN ""
    ELSE ", " \o Head(l).key \o "=" \o Head(l).val \o FieldListText(Tail(l))

\* name(features)fields for each member of an entry list, sep between them
RECURSIVE EntryListText(_, _, _)
EntryListText(l, sep, tail) ==
    IF l = <<>> THEN ""
    ELSE Head(l).key \o Head(l).val \o tail
           \o (IF Tail(l) = <<>> THEN "" ELSE sep \o EntryListText(Tail(l), sep, tail))

\* a backslash and the character, for each member of an escape list
RECURSIVE EscapeListText(_)
EscapeListText(l) ==
    IF l = <<>> THEN "" ELSE "\\" \o Head(l).key \o EscapeListText(Tail(l))

\* each member of an item list followed by its separator
RECURSIVE ItemListText(_)
ItemListText(l) ==
    IF l = <<>> THEN "" ELSE Head(l).key \o Head(l).val \o ItemListText(Tail(l))

InputOf(g) ==
    CASE g.form = "field"  -> FieldPrefix(g) \o FieldPayload(g) \o g.tail
      [] g.form = "fields" -> g.text \o FieldListText(g.parts) \o g.tail
      [] g.form = "entries" -> EntryListText(g.parts, g.text, g.tail)
      [] g.form = "items" ->
            g.wrap \o " " \o ItemListText(g.parts)
              \o (IF g.tail = "" THEN "" ELSE IF g.wrap = "{" THEN "}" ELSE ">")
      [] g.form = "escapes" -> "s, f=\"" \o EscapeListText(g.parts) \o g.tail
      [] OTHER             -> g.text

-----------------------------------------------------------------------------
(* The calls                                                               *)

NoOrig == [what |-> "none", val |-> Undefined]

\* new GstCaps(caps): the fields the constructor sets
GstCaps(caps) ==
    [isAny    |-> caps.kind = "any",
     isEmpty  |-> caps.kind = "empty",
     entries  |-> IF caps.kind = "structures" THEN caps.entries ELSE <<>>,
     raw      |-> caps]

\* get length()
GstCaps_length(w) == Len(w.entries)

\* an index access that counts the entries from one
GstCaps_at_oneBased(w, n) ==
    IF n >= 1 /\ n <= Len(w.entries)
    THEN Structure(w.entries[n].structure.name, w.entries[n].structure.fields)
    ELSE Undefined

\* caps[n], the get trap of the proxy; a negative n is no index and names a
\* property the object does not have
GstCaps_at(w, n) ==
    IF n >= 0
    THEN IF n < Len(w.entries)
         THEN Structure(w.entries[n + 1].structure.name, w.entries[n + 1].structure.fields)
         ELSE Undefined
    ELSE Undefined

\* getFeatures(index)
GstCaps_getFeatures(w, index) ==
    IF index >= 0 /\ index < Len(w.entries) THEN w.entries[index + 1].features ELSE <<>>

Serialized(what, v, text) ==
    [st |-> "text", val |-> [what |-> what, of |-> v, text |-> text], pos |-> 0]

Init ==
    /\ gen \in Gens
    /\ input = InputOf(gen)
    /\ op = "none"
    /\ result = NoResult
    /\ orig = NoOrig

\* one call is made on each input
Call(name, r) ==
    /\ op = "none"
    /\ op' = name
    /\ result' = r
    /\ UNCHANGED <<gen, input, orig>>

\* a serializer applied to what the last call returned
Produce(name, r) ==
    /\ op' = name
    /\ result' = r
    /\ UNCHANGED <<gen, input, orig>>

\* inferType(raw), on a text with no character that ends an unquoted token
CallInferType ==
    /\ input # ""
    /\ unquotedEnd(input, 0) = Len(input)
    /\ Call("inferType", Returned(inferType(input)))

\* new Parser(input).parseValue()
CallParseValue ==
    Call("parseValue",
         With(Parse("parseValue", input, 0), LAMBDA r :
         IF r.hang THEN NeverReturns
         ELSE IF r.ok THEN [st |-> "ok", val |-> r.val, pos |-> r.pos]
         ELSE Raised(r.pos)))

\* p = new Parser(input); p.pos = <the bracket>; p.extractBalanced('[', ']')
CallExtractBalanced ==
    /\ gen.form = "field"
    /\ gen.wrap \in {"bracket", "open"}
    /\ Call("extractBalanced",
            With(extractBalanced(input, Len(FieldPrefix(gen)), "[", "]"), LAMBDA r :
            IF r.ok THEN [st |-> "ok", val |-> r.val, pos |-> r.pos] ELSE Raised(r.pos)))

CallParseStructure == Call("parseStructure", parseStructure(input))

CallParseStructureOrThrow == Call("parseStructureOrThrow", parseStructureOrThrow(input))

CallParseCaps == Call("parseCaps", parseCaps(input))

CallParseCapsOrThrow == Call("parseCapsOrThrow", parseCapsOrThrow(input))

\* valueToString(s.fields.get(k)) on a field of the structure just parsed
CallValueToString ==
    /\ op \in {"parseStructure", "parseStructureOrThrow"}
    /\ result.st = "ok"
    /\ \E i \in 1..Len(result.val.fields) :
          LET v == result.val.fields[i].value
          IN  Produce("valueToString", Serialized("value", v, valueToString(v)))

\* valueToStringBare(s.fields.get(k)) on a field of the structure just parsed
CallValueToStringBare ==
    /\ op \in {"parseStructure", "parseStructureOrThrow"}
    /\ result.st = "ok"
    /\ \E i \in 1..Len(result.val.fields) :
          LET v == result.val.fields[i].value
          IN  Produce("valueToStringBare", Serialized("bare", v, valueToStringBare(v)))

\* structureToString(s) on the structure just parsed
CallStructureToString ==
    /\ op \in {"parseStructure", "parseStructureOrThrow"}
    /\ result.st = "ok"
    /\ Produce("structureToString",
               Serialized("structure", result.val, structureToString(result.val)))

\* capsToString(c) on the caps just parsed
CallCapsToString ==
    /\ op \in {"parseCaps", "parseCapsOrThrow"}
    /\ result.st = "ok"
    /\ Produce("capsToString", Serialized("caps", result.val, capsToString(result.val)))

\* new GstCaps(c) on the caps just parsed
CallGstCaps ==
    /\ op \in {"parseCaps", "parseCapsOrThrow"}
    /\ result.st = "ok"
    /\ Produce("GstCaps", [st |-> "wrapper", val |-> GstCaps(result.val), pos |-> 0])

\* valueToString({ kind: 'structure', value: s }) or ({ kind: 'caps', value: c })
\* on the structure or caps just parsed from a text that no serializer wrote
CallValueToStringNested ==
    /\ gen.round = 0
    /\ op \in {"parseStructure", "parseStructureOrThrow", "parseCaps", "parseCapsOrThrow"}
    /\ result.st = "ok"
    /\ LET v == IF op \in {"parseStructure", "parseStructureOrThrow"}
                THEN StructureValue(result.val)
                ELSE CapsValue(result.val)
       IN  Produce("valueToStringNested", Serialized("nested", v, valueToString(v)))

\* the caller hands the text just produced back as the next input
Feed ==
    /\ result.st = "text"
    /\ gen.round < MaxRounds
    /\ gen' = GenSerialized(gen.round + 1)
    /\ input' = result.val.text
    /\ orig' = [what |-> result.val.what, val |-> result.val.of]
    /\ op' = "none"
    /\ result' = NoResult

Next ==
    \/ CallInferType
    \/ CallParseValue
    \/ CallExtractBalanced
    \/ CallParseStructure
    \/ CallParseStructureOrThrow
    \/ CallParseCaps
    \/ CallParseCapsOrThrow
    \/ CallValueToString
    \/ CallValueToStringBare
    \/ CallStructureToString
    \/ CallCapsToString
    \/ CallGstCaps
    \/ CallValueToStringNested
    \/ Feed

Spec == Init /\ [][Next]_vars

-----------------------------------------------------------------------------
(* Vocabulary of the properties                                            *)

\* every character of s is of class C
AllIn(s, C) == \A i \in 0..(Len(s) - 1) : At(s, i) \in C

IsDigits(s) == s # "" /\ AllIn(s, Digit)

IsIdentifier(s) == s # "" /\ At(s, 0) \in NameStart /\ AllIn(s, FieldNameChar)

\* s = a \o sep \o b for some a and b of the given shapes
SplitsAt(s, i, sep) == i >= 0 /\ i < Len(s) /\ At(s, i) = sep

Unsigned(s) == IF At(s, 0) \in {"+", "-"} THEN slice(s, 1, Len(s)) ELSE s

\* the positions that delimit the '+'-separated pieces of s
PlusCuts(s) == {i \in 0..(Len(s) - 1) : At(s, i) = "+"} \cup {-1, Len(s)}

LooksHex(s) ==
    Len(s) > 2 /\ slice(s, 0, 2) \in {"0x", "0X"} /\ AllIn(slice(s, 2, Len(s)), HexDigit)

LooksInt(s) == IsDigits(Unsigned(s))

\* an exponent: e or E, an optional sign, digits
LooksExponent(s) == s # "" /\ At(s, 0) \in {"e", "E"} /\ IsDigits(Unsigned(slice(s, 1, Len(s))))

\* digits '.' digits, with digits on at least one side
LooksMantissa(s) ==
    \E i \in 0..(Len(s) - 1) :
        /\ At(s, i) = "."
        /\ AllIn(slice(s, 0, i), Digit)
        /\ AllIn(slice(s, i + 1, Len(s)), Digit)
        /\ Len(s) > 1

LooksDouble(s) ==
    LET u == Unsigned(s)
    IN  \/ LooksMantissa(u)
        \/ \E i \in 1..(Len(u) - 1) :
              /\ LooksMantissa(slice(u, 0, i)) \/ IsDigits(slice(u, 0, i))
              /\ LooksExponent(slice(u, i, Len(u)))

LooksFraction(s) ==
    \E i \in 0..(Len(s) - 1) :
        At(s, i) = "/" /\ IsDigits(slice(s, 0, i)) /\ IsDigits(slice(s, i + 1, Len(s)))

LooksFlags(s) ==
    /\ Cardinality(PlusCuts(s)) >= 3
    /\ \A a, b \in PlusCuts(s) :
          (a < b /\ ~\E c \in PlusCuts(s) : a < c /\ c < b) => IsIdentifier(slice(s, a + 1, b))

BooleanKeywords == {"true", "false", "yes", "no", "t", "f"}

LooksBoolean(s) == toLowerCase(s) \in BooleanKeywords

\* the kind the cascade of section 4.5 assigns: the first rule that matches
CascadeKind(s) ==
    IF LooksHex(s) \/ LooksInt(s) THEN "int"
    ELSE IF LooksDouble(s) THEN "double"
    ELSE IF LooksFraction(s) THEN "fraction"
    ELSE IF LooksFlags(s) THEN "flags"
    ELSE IF LooksBoolean(s) THEN "boolean"
    ELSE "string"

-----------------------------------------------------------------------------
(* C2: inferType gives an unquoted token the kind of the first matching     *)
(* rule in the order hex, integer, double, fraction, flags, boolean,       *)
(* string; digits/digits is a Fraction of those two numbers, identifiers   *)
(* joined by '+' are Flags with those members, and a single identifier     *)
(* that is no boolean keyword is the String of the token itself.           *)
InferenceOrder ==
    op = "inferType" =>
        LET v == result.val
        IN  /\ v.kind = CascadeKind(input)
            /\ LooksFraction(input) =>
                  LET i == CHOOSE j \in 0..(Len(input) - 1) : At(input, j) = "/"
                  IN  v = FractionValue(NumOfInt(DigitsVal(slice(input, 0, i), 10)),
                                        NumOfInt(DigitsVal(slice(input, i + 1, Len(input)), 10)))
            /\ LooksFlags(input) =>
                  /\ v.kind = "flags"
                  /\ Len(v.flags) = Cardinality(PlusCuts(input)) - 1
                  /\ join(v.flags, "+") = input
            /\ (IsIdentifier(input) /\ ~LooksBoolean(input)) => v = StringValue(input)
            /\ v.kind = "string" => v.value = input

InferenceOrderWitness ==
    /\ op = "inferType"
    /\ input = "1/0"
    /\ result.val.kind = "fraction"

-----------------------------------------------------------------------------
(* Equality of parsed values: same kind and equal content                  *)

RECURSIVE SameValue(_, _), SameStructure(_, _), SameCaps(_, _)
\* a and b are values of the same kind with equal content
SameValue(a, b) ==
    /\ a.kind = b.kind
    /\ CASE a.kind \in {"int", "double", "string", "boolean", "bitmask"} -> a.value = b.value
         [] a.kind = "fraction" ->
               a.numerator = b.numerator /\ a.denominator = b.denominator
         [] a.kind = "flags" -> a.flags = b.flags
         [] a.kind \in {"list", "array"} ->
               /\ Len(a.items) = Len(b.items)
               /\ \A i \in 1..Len(a.items) : SameValue(a.items[i], b.items[i])
         [] a.kind = "range" ->
               SameValue(a.min, b.min) /\ SameValue(a.max, b.max) /\ SameValue(a.step, b.step)
         [] a.kind = "structure" -> SameStructure(a.value, b.value)
         [] a.kind = "caps" -> SameCaps(a.value, b.value)
         [] a.kind = "typed" -> a.typeName = b.typeName /\ SameValue(a.value, b.value)
         [] OTHER -> TRUE

\* same name and same field set, each field with the same value
SameStructure(a, b) ==
    /\ a.name = b.name
    /\ Len(a.fields) = Len(b.fields)
    /\ \A i \in 1..Len(a.fields) : \E j \in 1..Len(b.fields) :
          a.fields[i].key = b.fields[j].key /\ SameValue(a.fields[i].value, b.fields[j].value)

\* the same Any or Empty, or the same entries in the same order
SameCaps(a, b) ==
    /\ a.kind = b.kind
    /\ a.kind = "structures" =>
          /\ Len(a.entries) = Len(b.entries)
          /\ \A i \in 1..Len(a.entries) :
                /\ a.entries[i].features = b.entries[i].features
                /\ SameStructure(a.entries[i].structure, b.entries[i].structure)

-----------------------------------------------------------------------------
(* Round trips                                                             *)

\* the structure now being parsed is the text structureToString produced
ReparsedStructure == orig.what = "structure" /\ op \in {"parseStructure", "parseStructureOrThrow"}

(* C1: when the text that structureToString made of a parsed structure is  *)
(* parsed again, the parse succeeds and yields a structure with the same   *)
(* name and the same fields, each value of the same kind and content.      *)
StructureRoundTrip ==
    ReparsedStructure => result.st = "ok" /\ SameStructure(result.val, orig.val)

\* a round trip that keeps the structure: s, f=(int)1
StructureRoundTripWitness ==
    /\ ReparsedStructure
    /\ result.st = "ok"
    /\ SameStructure(result.val, orig.val)
    /\ \E i \in 1..Len(orig.val.fields) : orig.val.fields[i].value.kind = "typed"

-----------------------------------------------------------------------------
(* The throwing and the non-throwing forms                                 *)

\* what the two structure entry points do on the text of the call in progress
NonThrowingStructure == IF op = "parseStructure" THEN result ELSE parseStructure(input)

ThrowingStructure ==
    IF op = "parseStructureOrThrow" THEN result ELSE parseStructureOrThrow(input)

\* a text with nothing but blanks
IsBlankText(s) == AllIn(s, Blank)

\* the text, blanks at both ends aside, does not start with a name
NoLeadingName(s) == ~IsBlankText(s) /\ At(s, span(s, 0, Blank)) \notin NameStart

\* a name, a comma, and then '=' where the name of the first field should be
EmptyFieldName(s) ==
    LET a == span(s, 0, Blank)
        b == span(s, a, NameChar)
        c == span(s, b, Blank)
        d == span(s, c + 1, Blank)
    IN  At(s, a) \in NameStart /\ At(s, c) = "," /\ At(s, d) = "="

(* C3: parseStructure returns null exactly when parseStructureOrThrow      *)
(* raises, and otherwise both return a structure with the same name and    *)
(* fields; the empty text, a blank text, a text that does not start with   *)
(* a name and a text whose first field has an empty name are rejected by   *)
(* both.                                                                   *)
StructureFormsAgree ==
    op \in {"parseStructure", "parseStructureOrThrow"} =>
        LET n == NonThrowingStructure
            t == ThrowingStructure
        IN  /\ n.st = "null" <=> t.st = "throw"
            /\ n.st = "ok" <=> t.st = "ok"
            /\ n.st = "ok" => SameStructure(n.val, t.val)
            /\ (IsBlankText(input) \/ NoLeadingName(input) \/ EmptyFieldName(input)) =>
                  n.st = "null" /\ t.st = "throw"

\* the throwing form has just raised on "foo, =bad"
StructureFormsAgreeWitness ==
    /\ op = "parseStructureOrThrow"
    /\ input = "foo, =bad"
    /\ result.st = "throw"
    /\ parseStructure(input).st = "null"

\* what the two caps entry points do on the text of the call in progress
NonThrowingCaps == IF op = "parseCaps" THEN result ELSE parseCaps(input)

ThrowingCaps == IF op = "parseCapsOrThrow" THEN result ELSE parseCapsOrThrow(input)

\* null from the one exactly when the other raises; the same Caps otherwise
CapsFormsEquivalent ==
    LET n == NonThrowingCaps
        t == ThrowingCaps
    IN  /\ n.st = "null" <=> t.st = "throw"
        /\ t.st = "ok" => n.st = "ok" /\ SameCaps(n.val, t.val)

-----------------------------------------------------------------------------
(* The caps keywords                                                       *)

(* C5: the caps parser returns Any only when the text, blanks around it    *)
(* aside, is exactly ANY, and Empty only when it is exactly EMPTY or NONE; *)
(* a text that merely begins with a keyword gives neither.                 *)
CapsKeywordExact ==
    (op \in {"parseCaps", "parseCapsOrThrow"} /\ result.st = "ok") =>
        /\ result.val.kind = "any" => trim(input) = "ANY"
        /\ result.val.kind = "empty" => trim(input) \in {"EMPTY", "NONE"}

\* the keyword alone, after a blank, gives Any
CapsKeywordExactWitness ==
    /\ op = "parseCaps"
    /\ input = " ANY"
    /\ result.st = "ok"
    /\ result.val.kind = "any"

-----------------------------------------------------------------------------
(* Explicitly typed fields: s, f=(tag)payload                              *)

\* a structure entry point has returned on a field with a type tag and a
\* bare or a quoted payload
TaggedField ==
    /\ op \in {"parseStructure", "parseStructureOrThrow"}
    /\ result.st = "ok"
    /\ gen.form = "field"
    /\ gen.tag # ""
    /\ gen.wrap \in {"bare", "quoted"}

\* the value the payload has before the tag is applied
RawPayload == IF gen.wrap = "bare" THEN inferType(gen.text) ELSE StringValue(gen.text)

\* the value of the field f
FieldValue == MapGet(result.val.fields, "f")

\* the tag, letter case aside
TagFamily == toLowerCase(gen.tag)

\* the integer part of a finite number
TowardZero(x) ==
    IF x.s <= 0 THEN x
    ELSE NumOfInt((IF x.m < 0 THEN -1 ELSE 1) * (Abs(x.m) \div Pow10(x.s)))

(* C6: under an int-family tag a Double becomes the Int of its truncation  *)
(* toward zero, a Boolean becomes 0 or 1 and an Int is unchanged; under a  *)
(* double-family tag an Int becomes the Double of the same number; under   *)
(* a boolean-family tag an Int becomes (value != 0) and a String becomes   *)
(* true exactly for true, yes, t and 1 in any letter case; the tag is      *)
(* matched in any letter case.                                             *)
CoercionTable ==
    TaggedField =>
        /\ (TagFamily \in IntFamily /\ RawPayload.kind = "double") =>
              SameValue(FieldValue, IntValue(TowardZero(RawPayload.value)))
        /\ (TagFamily \in IntFamily /\ RawPayload.kind = "boolean") =>
              SameValue(FieldValue, IntValue(NumOfInt(IF RawPayload.value THEN 1 ELSE 0)))
        /\ (TagFamily \in IntFamily /\ RawPayload.kind = "int") =>
              SameValue(FieldValue, RawPayload)
        /\ (TagFamily \in DoubleFamily /\ RawPayload.kind = "int") =>
              SameValue(FieldValue, DoubleValue(RawPayload.value))
        /\ (TagFamily \in BooleanFamily /\ RawPayload.kind = "int") =>
              SameValue(FieldValue, BooleanValue(RawPayload.value # NumOfInt(0)))
        /\ (TagFamily \in BooleanFamily /\ RawPayload.kind = "string") =>
              SameValue(FieldValue,
                        BooleanValue(\E k \in {"true", "yes", "t", "1"} :
                                        toLowerCase(RawPayload.value) = k))

\* s, f=(INT)-3.9 gives the Int -3
CoercionTableWitness ==
    /\ TaggedField
    /\ input = "s, f=(INT)-3.9"
    /\ SameValue(FieldValue, IntValue(NumOfInt(-3)))

(* C7: a (string) or (gchararray) tag in front of an unquoted token gives  *)
(* a String whose text is the token, whatever the token alone would have   *)
(* been inferred as.                                                       *)
StringTagKeepsToken ==
    (TaggedField /\ TagFamily \in {"string", "gchararray"} /\ gen.wrap = "bare") =>
        SameValue(FieldValue, StringValue(gen.text))

\* s, f=(string)true gives the String "true"
StringTagKeepsTokenWitness ==
    /\ TaggedField
    /\ input = "s, f=(string)true"
    /\ SameValue(FieldValue, StringValue("true"))

\* the value now being parsed is the text valueToString made of a Typed value
ReparsedTyped == orig.what = "value" /\ orig.val.kind = "typed" /\ op = "parseValue"

(* C8: when the text that valueToString made of a Typed value is parsed as *)
(* a value, the parse succeeds and yields a Typed value with the same type *)
(* name, letter case included, and an inner value of the same kind and     *)
(* content.                                                                *)
TypedRoundTrip == ReparsedTyped => result.st = "ok" /\ SameValue(result.val, orig.val)

\* (Foo)"x" comes back as it was
TypedRoundTripWitness ==
    /\ ReparsedTyped
    /\ result.st = "ok"
    /\ orig.val.typeName = "Foo"
    /\ SameValue(result.val, orig.val)

-----------------------------------------------------------------------------
(* Nested caps and structures                                              *)

\* the Parser method m raises on the text s
InnerFails(m, s) == LET r == Parse(m, s, 0) IN ~r.ok /\ ~r.hang

\* a structure entry point has been called on s, f=(tag)[body]...
BracketField ==
    /\ op \in {"parseStructure", "parseStructureOrThrow"}
    /\ gen.form = "field"
    /\ gen.wrap = "bracket"
    /\ TagFamily \in {"gstcaps", "caps"}

\* what extractBalanced makes of the bracket of the field
BracketBody == extractBalanced(input, Len(FieldPrefix(gen)), "[", "]")

(* C9: a quoted payload of a caps or structure tag that fails the inner     *)
(* grammar leaves the field the String of the payload and the enclosing    *)
(* parse succeeds; a bracketed body of a caps tag that fails the caps      *)
(* grammar makes the enclosing parse fail.                                 *)
MalformedPayload ==
    /\ (/\ op \in {"parseStructure", "parseStructureOrThrow"}
        /\ gen.form = "field"
        /\ gen.wrap = "quoted"
        /\ \/ TagFamily \in {"gstcaps", "caps"} /\ InnerFails("Parser_parseCaps", gen.text)
           \/ TagFamily = "gststructure" /\ InnerFails("Parser_parseStructure", gen.text))
          => result.st = "ok" /\ SameValue(FieldValue, StringValue(gen.text))
    /\ (BracketField /\ BracketBody.ok /\ InnerFails("Parser_parseCaps", BracketBody.val))
          => result.st = (IF op = "parseStructure" THEN "null" ELSE "throw")

\* s, f=(GstCaps)[1x] has just made parseStructureOrThrow raise
MalformedPayloadWitness ==
    /\ BracketField
    /\ op = "parseStructureOrThrow"
    /\ input = "s, f=(GstCaps)[1x]"
    /\ result.st = "throw"
    /\ parseStructure("s, f=(GstCaps)\"1x\"").st = "ok"

\* the body of the bracket is a text the caps grammar accepts
BodyAccepted == Parse("Parser_parseCaps", gen.text, 0).ok

(* C10: when the body of (GstCaps)[body] is a text the caps grammar        *)
(* accepts, extractBalanced returns exactly the body and leaves the cursor *)
(* right after the ']' that closes the bracket; with no such ']' it fails. *)
BalancedExtract ==
    (op = "extractBalanced" /\ BodyAccepted) =>
        /\ gen.wrap = "bracket" =>
              /\ result.st = "ok"
              /\ result.val = gen.text
              /\ result.pos = Len(FieldPrefix(gen)) + Len(gen.text) + 2
        /\ (gen.wrap = "open" /\ gen.tail # "]") => result.st = "throw"

\* the body v, a=[ 1, 2 ], with a range of its own, is returned whole
BalancedExtractWitness ==
    /\ op = "extractBalanced"
    /\ gen.wrap = "bracket"
    /\ gen.text = "v, a=[ 1, 2 ]"
    /\ result.st = "ok"
    /\ result.val = gen.text

-----------------------------------------------------------------------------
(* Field maps                                                              *)

\* the structures a parse has just returned: the structure itself, or the
\* structures of the entries of a Caps
ParsedStructures ==
    IF op \in {"parseStructure", "parseStructureOrThrow"} /\ result.st = "ok"
    THEN {result.val}
    ELSE IF op \in {"parseCaps", "parseCapsOrThrow"} /\ result.st = "ok"
              /\ result.val.kind = "structures"
         THEN {result.val.entries[i].structure : i \in 1..Len(result.val.entries)}
    ELSE {}

\* the structure parsed from the field list of the recipe: the structure, or
\* the one of the first entry of the Caps
FirstStructure ==
    IF op \in {"parseStructure", "parseStructureOrThrow"} THEN result.val
    ELSE result.val.entries[1].structure

\* a parse has returned on a text name, k=v, k=v ...
FieldListParsed ==
    /\ gen.form = "fields"
    /\ op \in {"parseStructure", "parseStructureOrThrow", "parseCaps", "parseCapsOrThrow"}
    /\ result.st = "ok"

\* the place of the last k=... in the field list
LastOf(k) == CHOOSE i \in 1..Len(gen.parts) :
                /\ gen.parts[i].key = k
                /\ \A j \in (i + 1)..Len(gen.parts) : gen.parts[j].key # k

\* the value a text v written after k= stands for
Written(v) == IF v = "1" THEN IntValue(NumOfInt(1)) ELSE StringValue(v)

(* C11: the field map of a parsed structure or caps entry has no key       *)
(* twice, and a field name written several times holds the value of its    *)
(* last occurrence.                                                        *)
LastWriteWins ==
    /\ \A st \in ParsedStructures :
          \A i, j \in 1..Len(st.fields) : st.fields[i].key = st.fields[j].key => i = j
    /\ FieldListParsed =>
          \A n \in 1..Len(gen.parts) :
              SameValue(MapGet(FirstStructure.fields, gen.parts[n].key),
                        Written(gen.parts[LastOf(gen.parts[n].key)].val))

\* a, b=1, c=x, b=x has been parsed and b holds the String x
LastWriteWinsWitness ==
    /\ FieldListParsed
    /\ input = "a, b=1, c=x, b=x"
    /\ Len(FirstStructure.fields) = 2
    /\ SameValue(MapGet(FirstStructure.fields, "b"), StringValue("x"))

-----------------------------------------------------------------------------
(* The texts valueToString writes                                          *)

\* valueToString has just been applied to a value
Serializing == op = "valueToString"

\* text starts with a type name in parentheses
HasTypePrefix(text) ==
    /\ At(text, 0) = "("
    /\ \E i \in 2..(Len(text) - 1) : At(text, i) = ")" /\ AllIn(slice(text, 1, i), TypeNameChar)

\* the members of fs with a '+' between them
RECURSIVE PlusJoined(_)
PlusJoined(fs) ==
    IF fs = <<>> THEN ""
    ELSE IF Len(fs) = 1 THEN Head(fs)
    ELSE Head(fs) \o "+" \o PlusJoined(Tail(fs))

\* Flags are written as their members joined by '+', with no prefix
FlagsBare ==
    (Serializing /\ result.val.of.kind = "flags") =>
        /\ result.val.text = PlusJoined(result.val.of.flags)
        /\ ~HasTypePrefix(result.val.text)

(* C12, as stated: valueToString writes an Int, Double, String, Boolean,   *)
(* Fraction or Bitmask with a type name in parentheses in front, and Flags *)
(* as the members joined by '+' with no prefix.                            *)
ScalarPrefix ==
    /\ (Serializing /\ result.val.of.kind \in
            {"int", "double", "string", "boolean", "fraction", "bitmask"})
          => HasTypePrefix(result.val.text)
    /\ FlagsBare

(* C12, amended: valueToString writes an Int, Double, Boolean, Fraction or *)
(* Bitmask with the name of its kind in parentheses in front, a String as  *)
(* a quoted literal with no prefix, and Flags as the members joined by '+' *)
(* with no prefix.                                                         *)
ScalarPrefixButString ==
    /\ (Serializing /\ result.val.of.kind \in
            {"int", "double", "boolean", "fraction", "bitmask"})
          => startsWith(result.val.text, "(" \o result.val.of.kind \o ")", 0)
    /\ (Serializing /\ result.val.of.kind = "string")
          => /\ At(result.val.text, 0) = "\""
             /\ At(result.val.text, Len(result.val.text) - 1) = "\""
             /\ ~HasTypePrefix(result.val.text)
    /\ FlagsBare

\* the String x has been written as "x"
ScalarPrefixWitness ==
    /\ Serializing
    /\ SameValue(result.val.of, StringValue("x"))
    /\ result.val.text = "\"x\""

\* valueToStringBare has just been applied to a value
SerializingBare == op = "valueToStringBare"

\* the texts of the members with ", " between them
RECURSIVE MembersText(_)
MembersText(items) ==
    IF items = <<>> THEN ""
    ELSE valueToString(Head(items))
           \o (IF Len(items) > 1 THEN ", " ELSE "") \o MembersText(Tail(items))

(* C13: for an Int, Double, Boolean or Fraction, valueToString is the      *)
(* prefix of the kind followed by valueToStringBare; for every other kind  *)
(* the two are equal, and the members of a List, an Array or a Range are   *)
(* written with their prefixes.                                            *)
BareIsUnprefixed ==
    SerializingBare =>
        LET v    == result.val.of
            bare == result.val.text
        IN  /\ v.kind \in {"int", "double", "boolean", "fraction"} =>
                  valueToString(v) = "(" \o v.kind \o ")" \o bare
            /\ v.kind \notin {"int", "double", "boolean", "fraction"} =>
                  valueToString(v) = bare
            /\ v.kind = "list" => bare = "{ " \o MembersText(v.items) \o " }"
            /\ v.kind = "array" => bare = "< " \o MembersText(v.items) \o " >"
            /\ v.kind = "range" =>
                  bare = "[ " \o MembersText(IF v.step # Undefined
                                             THEN <<v.min, v.max, v.step>>
                                             ELSE <<v.min, v.max>>) \o " ]"

\* the Boolean true written bare, and the list { 1, 2 } with its prefixes
BareIsUnprefixedWitness ==
    /\ SerializingBare
    /\ \/ result.val.of.kind = "boolean" /\ result.val.text = "true"
       \/ result.val.of.kind = "list" /\ result.val.text = "{ (int)1, (int)2 }"

-----------------------------------------------------------------------------
(* Caps round trip                                                         *)

\* the caps now being parsed is the text capsToString produced
ReparsedCaps == orig.what = "caps" /\ op \in {"parseCaps", "parseCapsOrThrow"}

\* capsToString has just been applied to a Caps
SerializingCaps == op = "capsToString"

(* C14: when the text that capsToString made of a parsed Caps is parsed    *)
(* again, the parse succeeds and yields a Caps of the same variant with    *)
(* the same entries: names, features in order and fields; Any is written   *)
(* ANY, Empty is written EMPTY, and an entry with no features is written   *)
(* with no parentheses after its name.                                     *)
CapsRoundTrip ==
    /\ ReparsedCaps => result.st = "ok" /\ SameCaps(result.val, orig.val)
    /\ (SerializingCaps /\ result.val.of.kind = "any") => result.val.text = "ANY"
    /\ (SerializingCaps /\ result.val.of.kind = "empty") => result.val.text = "EMPTY"
    /\ (SerializingCaps /\ result.val.of.kind = "structures"
          /\ Len(result.val.of.entries) > 0) =>
          LET e == result.val.of.entries[1]
          IN  /\ startsWith(result.val.text, e.structure.name, 0)
              /\ At(result.val.text, Len(e.structure.name)) = "(" <=> Len(e.features) > 0

\* a(b,c); d comes back with its two entries and the features b and c
CapsRoundTripWitness ==
    /\ ReparsedCaps
    /\ input = "a(b, c); d"
    /\ result.st = "ok"
    /\ SameCaps(result.val, orig.val)
    /\ result.val.entries[1].features = <<"b", "c">>

-----------------------------------------------------------------------------
(* The structure grammar                                                   *)

\* a structure entry point has been called on a text name, k=v, k=v ...
FieldListStructure ==
    gen.form = "fields" /\ op \in {"parseStructure", "parseStructureOrThrow"}

\* the field names written, each once
WrittenKeys == {gen.parts[n].key : n \in 1..Len(gen.parts)}

\* the place where the name k is written first
FirstOf(k) == CHOOSE i \in 1..Len(gen.parts) :
                 gen.parts[i].key = k /\ \A j \in 1..(i - 1) : gen.parts[j].key # k

(* C15: the structure parser accepts a name and zero or more ', k=v'       *)
(* pairs, with one trailing comma allowed before ';' or the end of the     *)
(* text, and stops at the first ';': the result has the name and exactly   *)
(* the fields written before that point, in the order written; a second    *)
(* trailing comma is rejected.                                             *)
StructureGrammar ==
    FieldListStructure =>
        IF gen.tail = ",,"
        THEN result.st = (IF op = "parseStructure" THEN "null" ELSE "throw")
        ELSE /\ result.st = "ok"
             /\ result.val.name = gen.text
             /\ Len(result.val.fields) = Cardinality(WrittenKeys)
             /\ \A i \in 1..Len(result.val.fields) :
                   LET k == result.val.fields[i].key
                   IN  /\ k \in WrittenKeys
                       /\ SameValue(result.val.fields[i].value,
                                    Written(gen.parts[LastOf(k)].val))
                       /\ \A j \in 1..(i - 1) :
                             FirstOf(result.val.fields[j].key) < FirstOf(k)

\* a, b=1, has been parsed to the one field b
StructureGrammarWitness ==
    /\ FieldListStructure
    /\ result.st = "ok"
    /\ input = "a, b=1,"
    /\ Len(result.val.fields) = 1

-----------------------------------------------------------------------------
(* The entries of a caps text                                              *)

\* a caps entry point has been called on a text of entries separated by ;
EntryListCaps ==
    gen.form = "entries" /\ op \in {"parseCaps", "parseCapsOrThrow"}

\* the names written in the parentheses of an entry
FeaturesWritten(t) ==
    CASE t = "(f)"      -> <<"f">>
      [] t = "(f, m:G)" -> <<"f", "m:G">>
      [] OTHER          -> <<>>

\* the result has the entries written, with their features, in order
EntriesAsWritten ==
    /\ result.st = "ok"
    /\ result.val.kind = "structures"
    /\ Len(result.val.entries) = Len(gen.parts)
    /\ \A i \in 1..Len(gen.parts) :
          /\ result.val.entries[i].structure.name = gen.parts[i].key
          /\ result.val.entries[i].features = FeaturesWritten(gen.parts[i].val)

(* C16: for a caps text of k structures separated by ';', with or without  *)
(* blanks around the separators, the caps parser returns Structures with   *)
(* exactly k entries in input order; the features of each entry are the    *)
(* names written in the parentheses after its name, in order, and the      *)
(* empty list when no parentheses are written.                             *)
EntriesInOrder == EntryListCaps => EntriesAsWritten

\* the same, for texts whose first name does not begin with a keyword
EntriesInOrderOffKeyword ==
    (EntryListCaps /\ ~startsWith(input, "ANY", 0)) => EntriesAsWritten

\* a(f, m:G) ; v/x has been parsed
EntriesInOrderWitness ==
    /\ EntryListCaps
    /\ input = "a(f, m:G) ; v/x"
    /\ result.st = "ok"

-----------------------------------------------------------------------------
(* Strings and their escapes                                               *)

\* the literal written by valueToString for a String has been parsed
ReparsedString ==
    /\ orig.what = "value"
    /\ orig.val.kind = "string"
    /\ op = "parseValue"

\* a structure entry point has been called on s, f="\c\c..."
EscapesParsed ==
    gen.form = "escapes" /\ gen.tail = "\"" /\ op \in {"parseStructure", "parseStructureOrThrow"}

\* the characters that \c stands for
Decoded(c) ==
    CASE c = "n"  -> "\n"
      [] c = "t"  -> "\t"
      [] c = "r"  -> "\r"
      [] c = "\"" -> "\""
      [] c = "\\" -> "\\"
      [] OTHER    -> "\\" \o c

RECURSIVE DecodedList(_)
DecodedList(l) == IF l = <<>> THEN "" ELSE Decoded(Head(l).key) \o DecodedList(Tail(l))

(* C17: parsing the quoted literal that valueToString writes for String s  *)
(* yields String s; and when a quoted literal is parsed, \n, \t, \r, \"    *)
(* and \\ decode to one character each, and any other character after a    *)
(* backslash is kept with its backslash.                                   *)
StringRoundTrip ==
    /\ ReparsedString => (result.st = "ok" /\ SameValue(result.val, orig.val))
    /\ EscapesParsed =>
          /\ result.st = "ok"
          /\ Len(result.val.fields) = 1
          /\ SameValue(result.val.fields[1].value, StringValue(DecodedList(gen.parts)))

\* the String of a newline and a backslash-q has been written and read back
StringRoundTripWitness ==
    /\ ReparsedString
    /\ SameValue(orig.val, StringValue("\n\\q"))
    /\ input = "\"\\n\\\\q\""
    /\ result.st = "ok"

-----------------------------------------------------------------------------
(* Partial success                                                         *)

\* a parse entry point has returned a value
ParseReturned ==
    /\ op \in {"parseStructure", "parseStructureOrThrow", "parseCaps", "parseCapsOrThrow"}
    /\ result.st = "ok"

\* where the cursor of the parser stood when the entry point returned
FinalCursor ==
    IF op \in {"parseStructure", "parseStructureOrThrow"}
    THEN Parse("Parser_parseStructure", trim(input), 0).pos
    ELSE Parse("Parser_parseCaps", trim(input), 0).pos

\* the parser read the text to its end, or a structure parser stopped at
\* the ';' that ends the structure
WholeTextMatched ==
    \/ FinalCursor = Len(trim(input))
    \/ /\ op \in {"parseStructure", "parseStructureOrThrow"}
       /\ FinalCursor > 0
       /\ At(trim(input), FinalCursor - 1) = ";"

(* C18: there is no partial success: whenever a structure or caps entry    *)
(* point returns a value, the whole text apart from surrounding blanks was *)
(* matched by the grammar; a well-formed structure followed by characters  *)
(* the grammar cannot continue with is rejected, not answered with the     *)
(* value of its well-formed prefix.                                        *)
NoPartialSuccess == ParseReturned => WholeTextMatched

\* a a has been answered with the structure a
NoPartialSuccessWitness ==
    /\ ParseReturned
    /\ op = "parseStructure"
    /\ input = "a a"
    /\ result.val.name = "a"
    /\ ~WholeTextMatched

-----------------------------------------------------------------------------
(* The GstCaps wrapper                                                     *)

\* a wrapper has been built from the caps parsed from the input
Wrapped == op = "GstCaps"

\* the caps the wrapper was built from
WrappedCaps == parseCapsOrThrow(input).val

\* the indices asked for: one below and two above those of MaxEntries entries
Indices == (0 - 1)..(MaxEntries + 1)

(* C19: for every GstCaps wrapper built from a parsed Caps, isAny and      *)
(* isEmpty are never both true; length is 0 when either is true and the    *)
(* number of entries otherwise; caps[i] is a structure with the name and   *)
(* fields of the i-th entry for 0 <= i < length and undefined for any      *)
(* other index; getFeatures(i) is the features of the i-th entry, and the  *)
(* empty list when i is out of range.                                      *)
WrapperInvariants ==
    Wrapped =>
        LET w == result.val
            c == WrappedCaps
        IN  /\ ~(w.isAny /\ w.isEmpty)
            /\ w.isAny = (c.kind = "any")
            /\ w.isEmpty = (c.kind = "empty")
            /\ GstCaps_length(w) =
                  (IF w.isAny \/ w.isEmpty THEN 0 ELSE Len(c.entries))
            /\ \A i \in Indices :
                  IF i >= 0 /\ i < GstCaps_length(w)
                  THEN /\ GstCaps_at(w, i) # Undefined
                       /\ SameStructure(GstCaps_at(w, i), c.entries[i + 1].structure)
                       /\ GstCaps_getFeatures(w, i) = c.entries[i + 1].features
                  ELSE /\ GstCaps_at(w, i) = Undefined
                       /\ GstCaps_getFeatures(w, i) = <<>>

\* a wrapper of two entries, the second with features
WrapperInvariantsWitness ==
    /\ Wrapped
    /\ input = "a ; v/x(f, m:G)"
    /\ GstCaps_length(result.val) = 2
    /\ GstCaps_at(result.val, 1).name = "v/x"
    /\ GstCaps_getFeatures(result.val, 1) = <<"f", "m:G">>

-----------------------------------------------------------------------------
(* Termination                                                             *)

\* a parse entry point has been called
ParseCalled ==
    op \in {"parseStructure", "parseStructureOrThrow", "parseCaps", "parseCapsOrThrow"}

(* C20: every parse call terminates: on every text the structure and caps  *)
(* parsers, throwing and non-throwing, inner parses of quoted or bracketed *)
(* payloads included, return or raise after finitely many steps.           *)
ParseTerminates == ParseCalled => result.st \in {"ok", "null", "throw"}

\* parseCaps on a(= is in the feature loop for ever
ParseTerminatesWitness ==
    /\ op = "parseCaps"
    /\ input = "a(="
    /\ result = NeverReturns

-----------------------------------------------------------------------------
(* The values a parse produces                                             *)

RECURSIVE ValuesIn(_), ValuesInAll(_), ValuesOfFields(_), ValuesOfEntries(_)
\* v and every value inside it, as a sequence
ValuesIn(v) ==
    <<v>> \o
    (CASE v.kind \in {"list", "array"} -> ValuesInAll(v.items)
       [] v.kind = "range"     -> ValuesIn(v.min) \o ValuesIn(v.max) \o ValuesIn(v.step)
       [] v.kind = "typed"     -> ValuesIn(v.value)
       [] v.kind = "structure" -> ValuesOfFields(v.value.fields)
       [] v.kind = "caps"      ->
             IF v.value.kind = "structures" THEN ValuesOfEntries(v.value.entries)
             ELSE <<>>
       [] OTHER -> <<>>)

ValuesInAll(items) ==
    IF items = <<>> THEN <<>> ELSE ValuesIn(Head(items)) \o ValuesInAll(Tail(items))

ValuesOfFields(fields) ==
    IF fields = <<>> THEN <<>>
    ELSE ValuesIn(Head(fields).value) \o ValuesOfFields(Tail(fields))

ValuesOfEntries(entries) ==
    IF entries = <<>> THEN <<>>
    ELSE ValuesOfFields(Head(entries).structure.fields) \o ValuesOfEntries(Tail(entries))

\* every value in what the call in progress returned, when it is a parse
ProducedValues ==
    IF result.st # "ok" THEN <<>>
    ELSE CASE op \in {"inferType", "parseValue"} -> ValuesIn(result.val)
           [] op \in {"parseStructure", "parseStructureOrThrow"} ->
                 ValuesOfFields(result.val.fields)
           [] op \in {"parseCaps", "parseCapsOrThrow"} ->
                 IF result.val.kind = "structures" THEN ValuesOfEntries(result.val.entries)
                 ELSE <<>>
           [] OTHER -> <<>>

\* the values of the given kind among those produced
Produced(kind) == SelectSeq(ProducedValues, LAMBDA v : v.kind = kind)

-----------------------------------------------------------------------------
(* Flags                                                                   *)

(* C21: every Flags value that a parse produces has at least two members,  *)
(* each a non-empty identifier: a letter or underscore, then letters,      *)
(* digits, '_' or '-'; a token with no '+' never becomes Flags.            *)
FlagsHaveTwoMembers ==
    LET fs == Produced("flags")
    IN  /\ \A n \in 1..Len(fs) :
              /\ Len(fs[n].flags) >= 2
              /\ \A k \in 1..Len(fs[n].flags) : IsIdentifier(fs[n].flags[k])
        /\ (op = "inferType" /\ \A i \in 0..(Len(input) - 1) : At(input, i) # "+")
              => result.val.kind # "flags"

\* a field holding the Flags flush+accurate has been parsed
FlagsHaveTwoMembersWitness ==
    /\ op = "parseStructure"
    /\ input = "s, f=flush+accurate"
    /\ Len(Produced("flags")) = 1
    /\ Produced("flags")[1].flags = <<"flush", "accurate">>

-----------------------------------------------------------------------------
(* Bitmasks                                                                *)

\* a field with a bitmask tag has been parsed
BitmaskField == TaggedField /\ TagFamily \in {"bitmask", "gstbitmask"}

(* C22: every Bitmask value that a parse produces is a non-negative        *)
(* integer, for every token or quoted string after a bitmask tag; a        *)
(* payload that cannot be read as one leaves the raw value unchanged and   *)
(* raises no error.                                                        *)
BitmaskUnsigned ==
    /\ LET bs == Produced("bitmask")
       IN  \A n \in 1..Len(bs) : bs[n].value >= 0
    /\ (BitmaskField /\ FieldValue.kind # "bitmask") => SameValue(FieldValue, RawPayload)
    /\ (gen.form = "field" /\ gen.tag = "bitmask" /\ gen.wrap \in {"bare", "quoted"}
          /\ op \in {"parseStructure", "parseStructureOrThrow"}) => result.st = "ok"

\* (bitmask)-1 has been parsed to the Bitmask -1
BitmaskUnsignedWitness ==
    /\ op = "parseStructure"
    /\ input = "s, f=(bitmask)-1"
    /\ result.st = "ok"
    /\ FieldValue.kind = "bitmask"
    /\ FieldValue.value = 0 - 1

-----------------------------------------------------------------------------
(* Ints                                                                    *)

(* C23: every value of kind Int that a parse produces holds an integer:    *)
(* for every payload after an int-family tag, words and quoted strings     *)
(* that are no numerals included, the result is an Int holding an integer  *)
(* or a value of another kind, never an Int holding a non-number.          *)
IntHoldsInteger ==
    LET is == Produced("int")
    IN  \A n \in 1..Len(is) : IsIntegerNum(is[n].value)

\* (int)abc has been parsed to an Int holding NaN
IntHoldsIntegerWitness ==
    /\ op = "parseStructure"
    /\ input = "s, f=(int)abc"
    /\ result.st = "ok"
    /\ FieldValue.kind = "int"
    /\ FieldValue.value = NaN

-----------------------------------------------------------------------------
(* Caps with no entry                                                      *)

\* the Caps a caps entry point returned, and those held by field values
ProducedCaps ==
    (IF op \in {"parseCaps", "parseCapsOrThrow"} /\ result.st = "ok"
     THEN <<CapsValue(result.val)>> ELSE <<>>) \o Produced("caps")

CapsField ==
    /\ op \in {"parseStructure", "parseStructureOrThrow"}
    /\ result.st = "ok"
    /\ gen.form = "field"
    /\ TagFamily \in {"gstcaps", "caps"}
    /\ gen.wrap \in {"quoted", "bracket"}
    /\ FieldValue.kind = "caps"

NestedCapsWithNoEntry ==
    \E n \in 1..Len(Produced("caps")) :
        /\ Produced("caps")[n].value.kind = "structures"
        /\ Len(Produced("caps")[n].value.entries) = 0

-----------------------------------------------------------------------------
(* List and array bodies                                                   *)

\* parseValue has been called on a list or array body
ItemsParsed == gen.form = "items" /\ op = "parseValue"

\* members separated by single commas, at most one comma after the last,
\* and the closing delimiter written
WellFormedItems ==
    /\ gen.tail = "close"
    /\ \A n \in 1..Len(gen.parts) :
          IF n < Len(gen.parts) THEN gen.parts[n].val = ", "
          ELSE gen.parts[n].val \in {", ", " "}

(* C25: a '{' or '<' followed by values separated by single commas, with   *)
(* at most one trailing comma before the closing '}' or '>', is accepted   *)
(* and yields the values in order; a body in which two consecutive values  *)
(* are separated only by whitespace, or which lacks its closing delimiter, *)
(* is rejected.                                                            *)
ItemsCommaSeparated ==
    ItemsParsed =>
        IF WellFormedItems
        THEN /\ result.st = "ok"
             /\ result.val.kind = (IF gen.wrap = "{" THEN "list" ELSE "array")
             /\ Len(result.val.items) = Len(gen.parts)
             /\ \A n \in 1..Len(gen.parts) :
                   SameValue(result.val.items[n], Written(gen.parts[n].key))
        ELSE result.st = "throw"

\* the same, with bodies whose members are separated by blanks accepted
ItemsSeparated ==
    ItemsParsed =>
        IF gen.tail = "close" /\ \A n \in 1..Len(gen.parts) : gen.parts[n].val # ",, "
        THEN /\ result.st = "ok"
             /\ Len(result.val.items) = Len(gen.parts)
             /\ \A n \in 1..Len(gen.parts) :
                   SameValue(result.val.items[n], Written(gen.parts[n].key))
        ELSE result.st = "throw"

\* { 1 x } has been parsed to the list of 1 and x
ItemsCommaSeparatedWitness ==
    /\ ItemsParsed
    /\ input = "{ 1 x }"
    /\ result.st = "ok"
    /\ Len(result.val.items) = 2

-----------------------------------------------------------------------------
(* The field lists of the two parsers                                      *)

\* a structure entry point has accepted a text with no ';'
StructureAccepted ==
    /\ op \in {"parseStructure", "parseStructureOrThrow"}
    /\ result.st = "ok"
    /\ \A i \in 0..(Len(input) - 1) : At(input, i) # ";"

\* the caps parser returns one entry holding the structure just parsed
CapsReadsTheSame ==
    LET c == parseCaps(input)
    IN  /\ c.st = "ok"
        /\ c.val.kind = "structures"
        /\ Len(c.val.entries) = 1
        /\ SameStructure(c.val.entries[1].structure, result.val)

(* C26: for every text without ';' that the structure parser accepts, the  *)
(* caps parser also accepts it and returns Structures with exactly one     *)
(* entry whose structure has the same name and the same field map.         *)
SameFieldGrammar == StructureAccepted => CapsReadsTheSame

\* the same, for texts with no '(' after the name and no keyword in front
SameFieldGrammarOffFeatures ==
    (/\ StructureAccepted
     /\ \A k \in CapsKeywords : ~startsWith(trim(input), k, 0)
     /\ LET n == parseName(trim(input), 0)
        IN  peek(trim(input), skipWS(trim(input), n.pos)) # "(")
      => CapsReadsTheSame

\* a(b), c=1 has been parsed to the structure a with no field
SameFieldGrammarWitness ==
    /\ StructureAccepted
    /\ input = "a(b), c=1"
    /\ Len(result.val.fields) = 0
    /\ ~CapsReadsTheSame

-----------------------------------------------------------------------------
(* The serialized form as a fixed point                                    *)

\* the text T written for a parsed structure is the input of the call
StructureTextFed ==
    orig.what = "structure" /\ op \in {"parseStructure", "parseStructureOrThrow"}

CapsTextFed == orig.what = "caps" /\ op \in {"parseCaps", "parseCapsOrThrow"}

(* C27: the serialized form is a fixed point of parse-then-serialize: for  *)
(* every text S the structure parser accepts, T = structureToString of     *)
(* its result is accepted, and structureToString of the result of T is T   *)
(* character for character; likewise for capsToString.                     *)
SerializedIsCanonical ==
    /\ StructureTextFed => result.st = "ok"
    /\ CapsTextFed => result.st = "ok"
    /\ (orig.what = "structure" /\ op = "structureToString") => result.val.text = input
    /\ (orig.what = "caps" /\ op = "capsToString") => result.val.text = input

\* the same, for results that hold no Typed value, no negative Bitmask and
\* at least one caps entry
SerializedIsCanonicalOffTyped ==
    LET plain(vs) == \A n \in 1..Len(vs) :
                        /\ vs[n].kind # "typed"
                        /\ vs[n].kind = "bitmask" => vs[n].value >= 0
    IN  /\ (StructureTextFed /\ plain(ValuesOfFields(orig.val.fields))) => result.st = "ok"
        /\ (CapsTextFed /\ orig.val.kind = "structures" /\ orig.val.entries # <<>>
              /\ plain(ValuesOfEntries(orig.val.entries))) => result.st = "ok"
        /\ (orig.what = "structure" /\ op = "structureToString"
              /\ plain(ValuesOfFields(orig.val.fields))) => result.val.text = input
        /\ (orig.what = "caps" /\ op = "capsToString" /\ orig.val.kind = "structures"
              /\ plain(ValuesOfEntries(orig.val.entries))) => result.val.text = input

\* s, f=(foo)(int)1 has been parsed and written again as another text
SerializedIsCanonicalWitness ==
    /\ orig.what = "structure"
    /\ op = "structureToString"
    /\ input = "s, f=(foo)(int)1"
    /\ result.val.text # input

-----------------------------------------------------------------------------
(* The order of the fields written                                         *)

\* a serializer has been applied to the parse of a text name, k=v, k=v ...
FieldListWritten ==
    /\ gen.form = "fields"
    /\ op \in {"structureToString", "capsToString"}

\* , k=<value> for each name of the list l at its first occurrence, with the
\* value of its last occurrence in the whole list
RECURSIVE FirstOccurrences(_, _)
FirstOccurrences(l, seen) ==
    IF l = <<>> THEN ""
    ELSE IF Head(l).key \in seen THEN FirstOccurrences(Tail(l), seen)
    ELSE ", " \o Head(l).key \o "="
           \o valueToString(Written(gen.parts[LastOf(Head(l).key)].val))
           \o FirstOccurrences(Tail(l), seen \cup {Head(l).key})

(* C28: structureToString and capsToString emit the fields of a structure  *)
(* in the order in which each field name first occurred in the parsed      *)
(* text; a name that is repeated changes the stored value, not the place   *)
(* of the field among the others.                                          *)
FieldOrderKept ==
    FieldListWritten =>
        LET expected == gen.text \o FirstOccurrences(gen.parts, {})
        IN  IF op = "structureToString" THEN result.val.text = expected
            ELSE /\ startsWith(result.val.text, expected, 0)
                 /\ slice(result.val.text, Len(expected), Len(result.val.text))
                       = (IF gen.tail = "; d, e=2" THEN "; d, e=(int)2" ELSE "")

\* a, b=1, c=x, b=x has been written with b first and holding x
FieldOrderKeptWitness ==
    /\ FieldListWritten
    /\ op = "structureToString"
    /\ InputOf(gen) = "a, b=1, c=x, b=x"
    /\ result.val.text = "a, b=\"x\", c=\"x\""

-----------------------------------------------------------------------------
(* The cursor and the position of a ParseError                             *)

\* the text of the Parser the operation ran: the entry points trim theirs
ParserText == IF op = "parseValue" THEN input ELSE trim(input)

\* the cursor a returning parseValue leaves behind
CursorLeft == op = "parseValue" /\ result.st = "ok"

\* a ParseError has left the operation
ErrorRaised == result.st = "throw"

\* the text ends inside a quoted literal, on a backslash
EndsInBackslash(s) == Len(s) > 0 /\ At(s, Len(s) - 1) = "\\"

(* C29: the cursor of a parse never decreases and never exceeds the length *)
(* of the text parsed, and every ParseError carries a position p with      *)
(* 0 <= p <= the length of the text it carries, also when the failure is   *)
(* an unterminated quoted string that ends in a backslash.                 *)
CursorWithinText ==
    /\ CursorLeft => (0 <= result.pos /\ result.pos <= Len(ParserText))
    /\ ErrorRaised => (0 <= result.pos /\ result.pos <= Len(ParserText))

\* what the code does: only a text that ends in a backslash takes the
\* position one past the length, and never further
CursorOneBeyond ==
    /\ CursorLeft => (0 <= result.pos /\ result.pos <= Len(ParserText))
    /\ ErrorRaised =>
          /\ 0 <= result.pos
          /\ result.pos <= Len(ParserText) + 1
          /\ result.pos = Len(ParserText) + 1 => EndsInBackslash(ParserText)

\* the unterminated s, f="\n\ (9 characters) has raised a ParseError at position 10
CursorWithinTextWitness ==
    /\ op = "parseStructureOrThrow"
    /\ input = "s, f=\"\\n\\"
    /\ ErrorRaised
    /\ result.pos = Len(input) + 1

-----------------------------------------------------------------------------
(* Nested structures and caps written and read back                        *)

\* the text valueToString wrote for a nested Structure or Caps has been parsed
NestedReparsed ==
    /\ orig.what = "nested"
    /\ op = "parseValue"

(* C30: for every Structure s and Caps c that a parse produces, parsing    *)
(* valueToString of the nested-Structure value of s yields a Structure     *)
(* value equal to s, and parsing valueToString of the nested-Caps value of *)
(* c yields a Caps value equal to c, also when s or c hold quoted strings  *)
(* or further nested structures or caps.                                   *)
NestedRoundTrip ==
    NestedReparsed => (result.st = "ok" /\ SameValue(result.val, orig.val))

\* the Structure or Caps inside the nested value survives its own serializer:
\* structureToString or capsToString of it parses back to an equal one
FlatRoundTrips(v) ==
    IF v.kind = "structure"
    THEN LET flat == parseStructureOrThrow(structureToString(v.value))
         IN  flat.st = "ok" /\ SameStructure(flat.val, v.value)
    ELSE LET flat == parseCapsOrThrow(capsToString(v.value))
         IN  flat.st = "ok" /\ SameCaps(flat.val, v.value)

\* what the code does: the nesting loses nothing that the serializer of the
\* Structure or Caps itself does not lose
NestedRoundTripWhereFlat ==
    (NestedReparsed /\ FlatRoundTrips(orig.val)) =>
        (result.st = "ok" /\ SameValue(result.val, orig.val))

\* the structure s, f=(foo)1 has been nested, written and read back with
\* another field f
NestedRoundTripWitness ==
    /\ NestedReparsed
    /\ input = "(GstStructure)\"s, f=(foo)(int)1;\""
    /\ result.st = "ok"
    /\ ~SameValue(result.val, orig.val)

=============================================================================
